---- MODULE Spec2Model ----
(***************************************************************************)
(* Day-0 network setup: the network builder (setup.py), the section        *)
(* appliers and the reference / custom-field helpers (utils.py) and the    *)
(* backend wrappers (meraki_functions.py).                                 *)
(*                                                                         *)
(* JSON values are tagged records.  A dict is an ordered sequence of       *)
(* <<key, value>> pairs (Python dicts keep insertion order); a key is a    *)
(* pair <<first character, rest>> so that str.startswith is computed.      *)
(***************************************************************************)
EXTENDS Integers, Sequences, FiniteSets, TLC

VARIABLES
    network_config,     \* build_new_network: the network's document (a dict)
    net_name_to_id,     \* the module-level network name -> id cache
    copy_from_id,       \* the "copy from" network id of the run, None when not configured
    pc,                 \* where build_new_network is: start, create, settings, done, raised
    metadata,           \* build_new_network: metadata
    net_id,             \* build_new_network: net_id
    remaining_settings, \* build_new_network: remaining_settings
    position,           \* index in remaining_settings of the setting the for-loop is at
    completion_status,  \* build_new_network: completion_status
    returned,           \* the completion record build_new_network returned, None before
    frame,              \* the local variables of the list applier that is running
    calls,              \* history: every request made to the backend client, in order
    applied,            \* history: the settings whose applier was invoked, in order
    split_in,           \* the dict handed to separate_custom_fields
    split_out,          \* what separate_custom_fields returned, None before
    service_vlans,      \* the ids of the VLANs the service holds for the new network
    service_networks,   \* the names the service gave to a network since the cache was read
    delays,             \* history: the sleeps of build_new_network's thread, in order
    networks,           \* main: the documents of day0_config["networks"]
    futures,            \* main: per submitted network, how far its task is and its result
    completions,        \* main: the completion records collected so far
    unique_settings,    \* main: the settings keys seen in the collected records
    summary_table,      \* main: the summary table, None until it is built
    main_pc,            \* main: where main is
    workers,            \* pool: the local variables of each running build_new_network
    document,           \* history: the network's document as build_new_network received it
    split_given         \* history: the dict as it was handed to separate_custom_fields

vars == <<network_config, net_name_to_id, copy_from_id, pc, metadata, net_id, remaining_settings,
          position, completion_status, returned, frame, calls, applied, split_in, split_out,
          document, split_given, service_vlans, service_networks, delays,
          networks, futures, completions, unique_settings, summary_table, main_pc, workers>>

builder_vars == <<network_config, net_name_to_id, copy_from_id, pc, metadata, net_id,
                  remaining_settings, position, completion_status, returned, frame, calls, applied>>

split_vars == <<split_in, split_out>>

given_vars == <<document, split_given>>

service_vars == <<service_vlans, service_networks>>

clock_vars == <<delays>>

run_vars == <<networks, futures, completions, unique_settings, summary_table, main_pc, workers>>

\* ------------------------------------------------------------------ bounds
\* most top-level entries of a payload given to separate_custom_fields
MaxKeys == 2

\* most sections (besides metadata) of a network's document
MaxSections == 2

\* most items of a vlans, vlan_per_port or devices list
MaxItems == 2

\* ------------------------------------------------------------- JSON values
None == [t |-> "none"]

Str(s) == [t |-> "str", s |-> s]

List(xs) == [t |-> "list", xs |-> xs]

Dict(kv) == [t |-> "dict", kv |-> kv]

\* A key is the pair <<first character, rest of the string>> (the empty key is
\* <<"", "">>), so that key.startswith("_") is a test on its first character.
k_ref == <<"_", "ref">>

k_metadata == <<"m", "etadata">>

k_name == <<"n", "ame">>

k_productTypes == <<"p", "roductTypes">>

k_id == <<"i", "d">>

k_serial == <<"s", "erial">>

k_mode == <<"m", "ode">>

k_hubs == <<"h", "ubs">>

k_subnet == <<"s", "ubnet">>

\* the section names build_new_network dispatches on, in the order of its if/elif chain
k_claim == <<"c", "laim">>

k_firmware == <<"f", "irmware">>

k_siteToSiteVPN == <<"s", "iteToSiteVPN">>

k_amp == <<"a", "mp">>

k_content_filtering == <<"c", "ontent_filtering">>

k_syslog == <<"s", "yslog">>

k_snmp == <<"s", "nmp">>

k_vlans == <<"v", "lans">>

k_vlan_per_port == <<"v", "lan_per_port">>

k_devices == <<"d", "evices">>

k_traffic_shaping == <<"t", "raffic_shaping">>

\* a key build_new_network has no branch for
k_warm_spare == <<"w", "arm_spare">>

\* ------------------------------------------------------------ dict helpers
RECURSIVE IndexOfKey(_, _, _)
\* position of key k in the pair sequence kv at or after i, 0 when absent
IndexOfKey(kv, k, i) ==
    IF i > Len(kv) THEN 0
    ELSE IF kv[i][1] = k THEN i
    ELSE IndexOfKey(kv, k, i + 1)

\* Python: k in d
HasKey(d, k) == IndexOfKey(d.kv, k, 1) # 0

\* Python: d[k] (only used where the key is present)
Get(d, k) == d.kv[IndexOfKey(d.kv, k, 1)][2]

\* Python: d.get(k, default)
GetOr(d, k, default) == IF HasKey(d, k) THEN Get(d, k) ELSE default

\* Python: d[k] = v  (an existing key keeps its position, a new key is appended)
Set(d, k, v) ==
    IF HasKey(d, k)
    THEN Dict([i \in 1..Len(d.kv) |-> IF d.kv[i][1] = k THEN <<k, v>> ELSE d.kv[i]])
    ELSE Dict(Append(d.kv, <<k, v>>))

\* Python: del d[k]
Del(d, k) == Dict(SelectSeq(d.kv, LAMBDA p: p[1] # k))

\* variant: the keys from the last to the first
KeysReversed(d) == [i \in 1..Len(d.kv) |-> d.kv[Len(d.kv) + 1 - i][1]]

\* Python: list(d.keys())
Keys(d) == [i \in 1..Len(d.kv) |-> d.kv[i][1]]

KeySet(d) == {d.kv[i][1] : i \in 1..Len(d.kv)}

\* Python: key.startswith("_")
StartsWithUnderscore(key) == key[1] = "_"

\* ------------------------------------------------- separate_custom_fields
RECURSIVE SeparateLoopKeepAll(_, _, _, _)
\* variant: the else is missing, every key goes to remaining_fields
SeparateLoopKeepAll(config, i, custom_fields, remaining_fields) ==
    IF i > Len(config.kv) THEN <<custom_fields, remaining_fields>>
    ELSE LET key == config.kv[i][1]
             value == config.kv[i][2]
         IN SeparateLoopKeepAll(config, i + 1,
                                IF StartsWithUnderscore(key)
                                THEN Set(custom_fields, key, value) ELSE custom_fields,
                                Set(remaining_fields, key, value))

RECURSIVE SeparateLoop(_, _, _, _)
\* the for-loop of separate_custom_fields from item i on
SeparateLoop(config, i, custom_fields, remaining_fields) ==
    IF i > Len(config.kv) THEN <<custom_fields, remaining_fields>>
    ELSE LET key == config.kv[i][1]
             value == config.kv[i][2]
         IN IF StartsWithUnderscore(key)
            THEN SeparateLoop(config, i + 1, Set(custom_fields, key, value), remaining_fields)
            ELSE SeparateLoop(config, i + 1, custom_fields, Set(remaining_fields, key, value))

separate_custom_fields(config) == SeparateLoop(config, 1, Dict(<<>>), Dict(<<>>))

\* -------------------------------------------------------- fragment files
\* Section payloads as the document or a fragment file may give them.
ClaimConfig == Dict(<< <<<<"s", "erials">>, List(<<Str("Q2-A")>>)>> >>)

\* a firmware section asking for version shortName for the appliance product
FirmwareConfig(shortName) ==
    Dict(<< <<<<"p", "roducts">>,
        Dict(<< <<<<"a", "ppliance">>,
            Dict(<< <<<<"n", "extUpgrade">>,
                Dict(<< <<<<"t", "oVersion">>,
                    Dict(<< <<<<"_", "name_id">>, Str(shortName)>> >>)>> >>)>> >>)>> >>)>> >>)

\* a firmware section for the appliance and then the switch product
FirmwareConfigBoth(applianceName, switchName) ==
    LET switch == Get(Get(FirmwareConfig(switchName), <<"p", "roducts">>), <<"a", "ppliance">>)
    IN Dict(<< <<<<"p", "roducts">>,
                 Set(Get(FirmwareConfig(applianceName), <<"p", "roducts">>), <<"s", "witch">>, switch)>> >>)

SpokeConfig(hubNames) ==
    Dict(<< <<k_mode, Str("spoke")>>,
            <<k_hubs, List([i \in 1..Len(hubNames) |-> Dict(<< <<<<"h", "ubId">>, Str(hubNames[i])>> >>)])>> >>)

AmpConfig == Dict(<< <<k_mode, Str("enabled")>> >>)

ContentConfig ==
    Dict(<< <<<<"u", "rlCategoryListSize">>, Str("topSites")>>,
            <<<<"_", "name_blockedUrlCategories">>, List(<<Str("Adult"), Str("Unlisted")>>)>> >>)

\* a content-filtering payload that blocks the categories of the given names
ContentConfigNamed(names) ==
    Dict(<< <<<<"_", "name_blockedUrlCategories">>, List([i \in 1..Len(names) |-> Str(names[i])])>>,
            <<<<"u", "rlCategoryListSize">>, Str("fullList")>> >>)

SyslogConfig == Dict(<< <<<<"s", "ervers">>, List(<<>>)>> >>)

SnmpConfig == Dict(<< <<<<"a", "ccess">>, Str("users")>> >>)

BandwidthConfig == Dict(<< <<<<"b", "andwidthLimits">>, Str("wan1")>> >>)

ShapingConfig(bandwidth) == Dict(<< <<<<"_", "uplink_bandwidth">>, bandwidth>> >>)

VlanConfig(vlan_id) ==
    Dict(<< <<k_id, Str(vlan_id)>>, <<k_name, Str("Data")>>, <<k_subnet, Str("10.0." \o vlan_id \o ".0/24")>> >>)

DhcpConfig == Dict(<< <<<<"d", "hcpHandling">>, Str("Run a DHCP server")>> >>)

UseVpnConfig == Dict(<< <<<<"u", "seVpn">>, Str("true")>> >>)

PortConfig == Dict(<< <<<<"p", "ortId">>, Str("3")>>, <<<<"v", "lan">>, Str("10")>> >>)

DeviceConfig(serial) == Dict(<< <<k_serial, Str(serial)>>, <<k_name, Str("mx")>> >>)

UplinksConfig == Dict(<< <<<<"i", "nterfaces">>, Str("wan1")>> >>)

\* {"_ref": filename}
Ref(filename) == Dict(<< <<k_ref, Str(filename)>> >>)

\* a payload with one more top-level key, here a '_'-prefixed one no applier knows
WithNote(config) == Set(config, <<"_", "note">>, Str("n"))

\* The configs directory: file name -> parsed JSON.  A name outside the
\* domain ("missing.json") is a file that does not exist.
ConfigFiles ==
    [f \in {"claim.json", "firmware.json", "s2s.json", "amp.json", "content.json",
            "syslog.json", "snmp.json", "shaping.json", "bandwidth.json", "vlans.json",
            "vlan.json", "dhcp.json", "usevpn.json", "port.json", "device.json",
            "uplinks.json", "firmware99.json"} |->
        CASE f = "claim.json" -> ClaimConfig
          [] f = "firmware.json" -> FirmwareConfig("MX 18")
          [] f = "firmware99.json" -> FirmwareConfigBoth("MX 18", "MS 99")
          [] f = "s2s.json" -> SpokeConfig(<<"HQ">>)
          [] f = "amp.json" -> WithNote(AmpConfig)
          [] f = "content.json" -> ContentConfig
          [] f = "syslog.json" -> SyslogConfig
          [] f = "snmp.json" -> SnmpConfig
          [] f = "shaping.json" -> ShapingConfig(BandwidthConfig)
          [] f = "bandwidth.json" -> BandwidthConfig
          [] f = "vlans.json" -> List(<<VlanConfig("10")>>)
          [] f = "vlan.json" -> Set(VlanConfig("30"), <<"_", "name_groupPolicyId">>, Str("Nobody"))
          [] f = "dhcp.json" -> DhcpConfig
          [] f = "usevpn.json" -> UseVpnConfig
          [] f = "port.json" -> PortConfig
          [] f = "device.json" -> DeviceConfig("Q2-C")
          [] f = "uplinks.json" -> UplinksConfig]

\* Python truthiness of a loaded fragment: None and the empty dict are falsy
Falsy(v) ==
    \/ v = None
    \/ (v.t = "dict" /\ v.kv = <<>>)
    \/ (v.t = "list" /\ v.xs = <<>>)
    \/ (v.t = "str" /\ v.s = "")

load_ref_config(filename) ==
    IF filename \in DOMAIN ConfigFiles THEN ConfigFiles[filename] ELSE None

\* ------------------------------------------------------ backend wrappers
\* What the remote service does with one request.
Outcomes == {"ok", "api_error", "sdk_error"}

\* what the log of requests keeps of an answer: both kinds of error as "error"
Answer(outcome) == IF outcome \in {"api_error", "sdk_error"} THEN "error" ELSE outcome

\* one request: the operation, the network id or serial it addresses, the VLAN id
\* of a VLAN update ("" otherwise), the payload, and what the service answered
Call(op, target, payload, outcome) ==
    [op |-> op, target |-> target, vlan |-> "", payload |-> payload, answer |-> Answer(outcome)]

Resp(op, target) == [t |-> "resp", op |-> op, target |-> target]

\* str(e) of the exception a request raised; its wording is not modelled
ErrMsg(op) == [t |-> "error", op |-> op]

\* e.status of a meraki.APIError
ApiStatus == Str("400")

\* the fixed code of the "except Exception" branch
SdkStatus == Str("500")

\* try: response = dashboard.<op>(target, <payload>); return None, response
\* except meraki.APIError: return e.status, str(e); except Exception: "500", str(e)
SdkCall(op, target, payload, outcome) ==
    CASE outcome = "ok" ->
           [error_code |-> None, response |-> Resp(op, target),
            calls |-> <<Call(op, target, payload, outcome)>>]
      [] outcome = "sdk_error" ->
           [error_code |-> SdkStatus, response |-> ErrMsg(op),
            calls |-> <<Call(op, target, payload, outcome)>>]
      [] OTHER ->
           [error_code |-> ApiStatus, response |-> ErrMsg(op),
            calls |-> <<Call(op, target, payload, outcome)>>]

\* the same with the payload passed as **payload: unpacking anything but a
\* dict raises TypeError inside the try, before any request is made
SdkCallKw(op, target, payload, outcome) ==
    IF payload.t # "dict"
    THEN [error_code |-> SdkStatus, response |-> ErrMsg(op), calls |-> <<>>]
    ELSE SdkCall(op, target, payload, outcome)

update_network(network_id, config, outcome) ==
    LET r == SdkCallKw("updateNetwork", network_id, config, outcome)
    IN IF r.error_code = None
       THEN [r EXCEPT !.response = [t |-> "net", id |-> network_id, name |-> Get(config, k_name)]]
       ELSE r

\* ORG_ID, the target of the organization-level create call
ORG_ID == "org"

\* the id the service gives a network it creates for this builder
NewNetworkId == "N_new"

CreateOutcomes == Outcomes \cup {"taken"}

\* variant: a taken name is reported like any other API error
create_network_no_upsert(config, name_to_id, outcome, update_outcome) ==
    LET c == Call("createOrganizationNetwork", ORG_ID, config, outcome)
    IN IF outcome = "ok"
       THEN [error_code |-> None, raised |-> FALSE, calls |-> <<c>>,
             response |-> [t |-> "net", id |-> NewNetworkId, name |-> Get(config, k_name)]]
       ELSE [error_code |-> IF outcome = "sdk_error" THEN SdkStatus ELSE ApiStatus,
             raised |-> FALSE, calls |-> <<c>>,
             response |-> ErrMsg("createOrganizationNetwork")]

\* variant: the except clauses return the network as if it had been created
create_network_swallow(config, name_to_id, outcome, update_outcome) ==
    [error_code |-> None, raised |-> FALSE,
     calls |-> <<Call("createOrganizationNetwork", ORG_ID, config, outcome)>>,
     response |-> [t |-> "net", id |-> NewNetworkId, name |-> Get(config, k_name)]]

\* create_network: create, or update the cached id when the name is taken.
\* raised = TRUE: the KeyError of net_name_to_id[name], raised inside the
\* except clause, leaves the function.
create_network(config, name_to_id, outcome, update_outcome) ==
    LET c == Call("createOrganizationNetwork", ORG_ID, config, outcome)
    IN CASE outcome = "ok" ->
              [error_code |-> None, raised |-> FALSE, calls |-> <<c>>,
               response |-> [t |-> "net", id |-> NewNetworkId, name |-> Get(config, k_name)]]
         [] outcome = "taken" ->
              IF Get(config, k_name).s \notin DOMAIN name_to_id
              THEN [error_code |-> None, raised |-> TRUE, calls |-> <<c>>, response |-> None]
              ELSE LET network_id == name_to_id[Get(config, k_name).s]
                       u == update_network(network_id, config, update_outcome)
                   IN [error_code |-> u.error_code, raised |-> FALSE,
                       calls |-> <<c>> \o u.calls, response |-> u.response]
         [] outcome = "sdk_error" ->
              [error_code |-> SdkStatus, raised |-> FALSE, calls |-> <<c>>,
               response |-> ErrMsg("createOrganizationNetwork")]
         [] OTHER ->
              [error_code |-> ApiStatus, raised |-> FALSE, calls |-> <<c>>,
               response |-> ErrMsg("createOrganizationNetwork")]

\* ------------------------------------------------------- section appliers
\* An applier returns [status, output, calls, raised]; calls are the backend
\* operations it invoked, in order.
Ret(status, output, made) ==
    [status |-> status, output |-> output, calls |-> made, raised |-> FALSE, slept |-> 0]

\* time.sleep(120) after a successful claim
SettlingDelay == 120

RefNotFound == Str("Ref File not found... skipping.")

\* if "_ref" in config: config = load_ref_config(config["_ref"])
ResolveRef(config) ==
    IF HasKey(config, k_ref) THEN load_ref_config(Get(config, k_ref).s) ELSE config

\* if "_ref" in config: ...; if not config: return "Failure"
RefFailed(config) == HasKey(config, k_ref) /\ Falsy(ResolveRef(config))

\* the appliers that resolve the entry _ref and forward the resolved config whole
ForwardWhole(op, id, config, outcome) ==
    IF RefFailed(config) THEN Ret("Failure", RefNotFound, <<>>)
    ELSE LET r == SdkCallKw(op, id, ResolveRef(config), outcome)
         IN IF r.error_code # None THEN Ret("Failure", r.response, r.calls)
            ELSE Ret("Success", r.response, r.calls)

\* variant: the applier returns as soon as the devices are claimed
claim_devices_no_delay(id, config, outcome) ==
    IF RefFailed(config) THEN Ret("Failure", RefNotFound, <<>>)
    ELSE LET serials == GetOr(ResolveRef(config), <<"s", "erials">>, List(<<>>))
             r == SdkCall("claimNetworkDevices", id, serials, outcome)
         IN IF r.error_code # None THEN Ret("Failure", r.response, r.calls)
            ELSE Ret("Success", r.response, r.calls)

\* claim_devices: after a successful claim the thread sleeps before it returns
claim_devices(id, config, outcome) ==
    IF RefFailed(config) THEN Ret("Failure", RefNotFound, <<>>)
    ELSE LET serials == GetOr(ResolveRef(config), <<"s", "erials">>, List(<<>>))
             r == SdkCall("claimNetworkDevices", id, serials, outcome)
         IN IF r.error_code # None THEN Ret("Failure", r.response, r.calls)
            ELSE [Ret("Success", r.response, r.calls) EXCEPT !.slept = SettlingDelay]

syslog_server_config(id, config, outcome) ==
    ForwardWhole("updateNetworkSyslogServers", id, config, outcome)

amp_config(id, config, outcome) ==
    ForwardWhole("updateNetworkApplianceSecurityMalware", id, config, outcome)

\* snmp_config loads the fragment into syslog_config and forwards config itself
snmp_config(id, config, outcome) ==
    IF RefFailed(config) THEN Ret("Failure", RefNotFound, <<>>)
    ELSE LET r == SdkCallKw("updateNetworkSnmp", id, config, outcome)
         IN IF r.error_code # None THEN Ret("Failure", r.response, r.calls)
            ELSE Ret("Success", r.response, r.calls)

k_hubId == <<"h", "ubId">>

\* for hub in hubs: a hub whose name is in the cache gets its id in place;
\* valid_hubs is filled and never read, so every hub stays in config["hubs"]
TranslateHub(hub, name_to_id) ==
    LET hubId == GetOr(hub, k_hubId, None)
    IN IF ~Falsy(hubId) /\ hubId.s \in DOMAIN name_to_id
       THEN Set(hub, k_hubId, Str(name_to_id[hubId.s]))
       ELSE hub

\* the payload site_to_site_vpn_config sends for a resolved config
SiteToSitePayload(config, name_to_id) ==
    LET mode == GetOr(config, k_mode, Str("hub"))
        hubs == GetOr(config, k_hubs, None)
    IN IF mode = Str("spoke")
       THEN IF ~Falsy(hubs)
            THEN Set(config, k_hubs,
                     List([i \in 1..Len(hubs.xs) |-> TranslateHub(hubs.xs[i], name_to_id)]))
            ELSE Set(config, k_mode, Str("hub"))
       ELSE config

site_to_site_vpn_config(id, name_to_id, config, outcome) ==
    IF RefFailed(config) THEN Ret("Failure", RefNotFound, <<>>)
    ELSE LET r == SdkCallKw("updateNetworkApplianceVpnSiteToSiteVpn", id,
                            SiteToSitePayload(ResolveRef(config), name_to_id), outcome)
         IN IF r.error_code # None THEN Ret("Failure", r.response, r.calls)
            ELSE Ret("Success", r.response, r.calls)

k_name_blockedUrlCategories == <<"_", "name_blockedUrlCategories">>

k_blockedUrlCategories == <<"b", "lockedUrlCategories">>

\* response['categories'] of the category catalog, as name -> id
ContentCategories == [n \in {"Adult", "Gambling"} |-> IF n = "Adult" THEN "cat/1" ELSE "cat/2"]

\* variant: a name that is not in the catalog is passed on as it is
TranslateCategoriesKeepAll(names) ==
    List([i \in 1..Len(names.xs) |->
             IF names.xs[i].s \in DOMAIN ContentCategories
             THEN Str(ContentCategories[names.xs[i].s]) ELSE names.xs[i]])

\* [categories_map[name] for name in names if name in categories_map]
TranslateCategories(names) ==
    LET known == SelectSeq(names.xs, LAMBDA n: n.s \in DOMAIN ContentCategories)
    IN List([i \in 1..Len(known) |-> Str(ContentCategories[known[i].s])])

content_filtering_config(id, config, catalog_outcome, outcome) ==
    IF RefFailed(config) THEN Ret("Failure", RefNotFound, <<>>)
    ELSE LET fields == separate_custom_fields(ResolveRef(config))
             custom_fields == fields[1]
             remaining_fields == fields[2]
             named == HasKey(custom_fields, k_name_blockedUrlCategories)
             c == SdkCall("getNetworkApplianceContentFilteringCategories", id, None, catalog_outcome)
         IN IF named /\ c.error_code # None THEN Ret("Failure", c.response, c.calls)
            ELSE LET payload == IF named
                                THEN Set(remaining_fields, k_blockedUrlCategories,
                                         TranslateCategories(Get(custom_fields, k_name_blockedUrlCategories)))
                                ELSE remaining_fields
                     before == IF named THEN c.calls ELSE <<>>
                     r == SdkCallKw("updateNetworkApplianceContentFiltering", id, payload, outcome)
                 IN IF r.error_code # None THEN Ret("Failure", r.response, before \o r.calls)
                    ELSE Ret("Success", r.response, before \o r.calls)

k_uplink_bandwidth == <<"_", "uplink_bandwidth">>

\* traffic_shaping_config: an unresolvable _uplink_bandwidth _ref sets Partial
\* and still passes the None it loaded to the update wrapper
traffic_shaping_config(id, config, outcome, readback_outcome) ==
    IF RefFailed(config) THEN Ret("Failure", RefNotFound, <<>>)
    ELSE LET custom_fields == separate_custom_fields(ResolveRef(config))[1]
             has == HasKey(custom_fields, k_uplink_bandwidth)
             bandwidth_config == IF has THEN ResolveRef(Get(custom_fields, k_uplink_bandwidth)) ELSE None
             lost == has /\ RefFailed(Get(custom_fields, k_uplink_bandwidth))
             u == SdkCallKw("updateNetworkApplianceTrafficShapingUplinkBandwidth", id,
                            bandwidth_config, outcome)
             g == SdkCall("getNetworkApplianceTrafficShapingUplinkBandwidth", id, None, readback_outcome)
             status == IF has /\ (lost \/ u.error_code # None) THEN "Partial" ELSE "Success"
         IN Ret(status, Dict(<< <<<<"u", "plink_bandwidth">>, g.response>> >>),
                (IF has THEN u.calls ELSE <<>>) \o g.calls)

k_products == <<"p", "roducts">>

k_nextUpgrade == <<"n", "extUpgrade">>

k_toVersion == <<"t", "oVersion">>

k_name_id == <<"_", "name_id">>

\* response['products'] of getNetworkFirmwareUpgrades: per product its current
\* version and its available versions, each with a shortName and an id
FirmwareProducts ==
    << [product |-> "appliance",
        currentVersion |-> [shortName |-> "MX 17", id |-> "1001"],
        availableVersions |-> << [shortName |-> "MX 18", id |-> "1002"] >>],
       [product |-> "switch",
        currentVersion |-> [shortName |-> "MS 15", id |-> "2001"],
        availableVersions |-> << [shortName |-> "MS 16", id |-> "2002"] >>] >>

\* firmware_name_to_id[shortName] = id, a later entry replacing an earlier one
Put(table, name, id) == [n \in DOMAIN table \cup {name} |-> IF n = name THEN id ELSE table[n]]

RECURSIVE PutVersions(_, _, _)
PutVersions(table, versions, i) ==
    IF i > Len(versions) THEN table
    ELSE PutVersions(Put(table, versions[i].shortName, versions[i].id), versions, i + 1)

RECURSIVE FirmwareNameToId(_, _, _)
\* one table for all the products of the response
FirmwareNameToId(products, i, table) ==
    IF i > Len(products) THEN table
    ELSE FirmwareNameToId(products, i + 1,
            PutVersions(Put(table, products[i].currentVersion.shortName, products[i].currentVersion.id),
                        products[i].availableVersions, 1))

\* the product entry after del toVersion['_name_id']; toVersion['id'] = id
WithVersionId(product_upgrade, id) ==
    LET nextUpgrade == Get(product_upgrade, k_nextUpgrade)
        toVersion == Get(nextUpgrade, k_toVersion)
    IN Set(product_upgrade, k_nextUpgrade,
           Set(nextUpgrade, k_toVersion, Set(Del(toVersion, k_name_id), k_id, Str(id))))

\* the shortName a product entry asks for, None when it asks for none
RequestedShortName(product_upgrade) ==
    IF /\ HasKey(product_upgrade, k_nextUpgrade)
       /\ HasKey(Get(product_upgrade, k_nextUpgrade), k_toVersion)
       /\ HasKey(Get(Get(product_upgrade, k_nextUpgrade), k_toVersion), k_name_id)
    THEN Get(Get(Get(product_upgrade, k_nextUpgrade), k_toVersion), k_name_id)
    ELSE None

RECURSIVE ConvertShortNamesSkip(_, _, _, _)
\* variant: a product whose shortName is unknown is passed over
ConvertShortNamesSkip(products, i, table, shortnames) ==
    IF i > Len(products.kv)
    THEN [products |-> products, firmware_shortnames |-> shortnames, unknown |-> None]
    ELSE LET shortname == RequestedShortName(products.kv[i][2])
         IN IF shortname = None \/ shortname.s \notin DOMAIN table
            THEN ConvertShortNamesSkip(products, i + 1, table, shortnames)
            ELSE ConvertShortNamesSkip(
                    Set(products, products.kv[i][1], WithVersionId(products.kv[i][2], table[shortname.s])),
                    i + 1, table, Append(shortnames, shortname))

RECURSIVE ConvertShortNames(_, _, _, _)
\* for product in products: translate, or stop at the first unknown shortName
ConvertShortNames(products, i, table, shortnames) ==
    IF i > Len(products.kv)
    THEN [products |-> products, firmware_shortnames |-> shortnames, unknown |-> None]
    ELSE LET shortname == RequestedShortName(products.kv[i][2])
         IN IF shortname = None
            THEN ConvertShortNames(products, i + 1, table, shortnames)
            ELSE IF shortname.s \in DOMAIN table
            THEN ConvertShortNames(
                    Set(products, products.kv[i][1], WithVersionId(products.kv[i][2], table[shortname.s])),
                    i + 1, table, Append(shortnames, shortname))
            ELSE [products |-> products, firmware_shortnames |-> shortnames, unknown |-> shortname]

FirmwareOutcomes == Outcomes \cup {"already"}

UpToDate == Str("Firmware is up to date with specified version already. Skipping.")

\* variant: "already on this version" is returned like any other API error
trigger_already_is_error(network_id, firmware_upgrade_config, outcome) ==
    IF outcome = "already" /\ firmware_upgrade_config.t = "dict"
    THEN [error_code |-> ApiStatus, response |-> ErrMsg("updateNetworkFirmwareUpgrades"),
          calls |-> <<Call("updateNetworkFirmwareUpgrades", network_id, firmware_upgrade_config, outcome)>>]
    ELSE SdkCallKw("updateNetworkFirmwareUpgrades", network_id, firmware_upgrade_config, outcome)

\* "already on this version" in the API error is returned as (None, text)
trigger_network_firmware_upgrades(network_id, firmware_upgrade_config, outcome) ==
    IF outcome = "already" /\ firmware_upgrade_config.t = "dict"
    THEN [error_code |-> None, response |-> UpToDate,
          calls |-> <<Call("updateNetworkFirmwareUpgrades", network_id, firmware_upgrade_config, outcome)>>]
    ELSE SdkCallKw("updateNetworkFirmwareUpgrades", network_id, firmware_upgrade_config, outcome)

firmware_upgrade(id, config, fetch_outcome, outcome) ==
    IF RefFailed(config) THEN Ret("Failure", RefNotFound, <<>>)
    ELSE LET cfg == ResolveRef(config)
             f == SdkCall("getNetworkFirmwareUpgrades", id, None, fetch_outcome)
         IN IF f.error_code # None THEN Ret("Failure", f.response, f.calls)
            ELSE LET table == FirmwareNameToId(FirmwareProducts, 1, <<>>)
                     conv == IF HasKey(cfg, k_products)
                             THEN ConvertShortNames(Get(cfg, k_products), 1, table, <<>>)
                             ELSE [products |-> None, firmware_shortnames |-> <<>>, unknown |-> None]
                 IN IF conv.unknown # None
                    THEN Ret("Failure", [t |-> "unknown_version", name |-> conv.unknown], f.calls)
                    ELSE LET payload == IF HasKey(cfg, k_products)
                                        THEN Set(cfg, k_products, conv.products) ELSE cfg
                             r == trigger_network_firmware_upgrades(id, payload, outcome)
                         IN IF r.error_code # None THEN Ret("Failure", r.response, f.calls \o r.calls)
                            ELSE Ret("Success", List(conv.firmware_shortnames), f.calls \o r.calls)

\* ------------------------------------------------------------------ VLANs
VlanOutcomes == Outcomes \cup {"taken"}

\* the VLAN the service answers a create or an update with
VlanResponse(vlan_id, vlan_config) ==
    Dict(<< <<k_id, vlan_id>>, <<k_subnet, GetOr(vlan_config, k_subnet, Str("10.0.0.0/24"))>> >>)

update_vlan(network_id, vlan_id, vlan_config, outcome) ==
    LET r == SdkCallKw("updateNetworkApplianceVlan", network_id, vlan_config, outcome)
    IN [error_code |-> r.error_code,
        response |-> IF r.error_code = None THEN VlanResponse(vlan_id, vlan_config) ELSE r.response,
        calls |-> [i \in 1..Len(r.calls) |-> [r.calls[i] EXCEPT !.vlan = vlan_id.s]]]

\* variant: a taken id is reported like any other API error
create_vlan_no_upsert(network_id, vlan_config, settings_outcome, outcome, update_outcome) ==
    LET s == Call("updateNetworkApplianceVlansSettings", network_id,
                  Dict(<< <<<<"v", "lansEnabled">>, Str("true")>> >>), settings_outcome)
        c == Call("createNetworkApplianceVlan", network_id, vlan_config, outcome)
        first == IF settings_outcome = "ok" THEN outcome ELSE settings_outcome
        made == IF settings_outcome = "ok" THEN <<s, c>> ELSE <<s>>
    IN IF first = "ok"
       THEN [error_code |-> None, raised |-> FALSE, calls |-> made,
             response |-> VlanResponse(GetOr(vlan_config, k_id, Str("auto")), vlan_config)]
       ELSE [error_code |-> IF first = "sdk_error" THEN SdkStatus ELSE ApiStatus,
             raised |-> FALSE, calls |-> made,
             response |-> ErrMsg("createNetworkApplianceVlan")]

\* create_vlan: enable VLANs, create, and on 'taken' / 'bound' update the VLAN
\* vlan_config['id']; without an id that lookup raises KeyError in the except clause
create_vlan(network_id, vlan_config, settings_outcome, outcome, update_outcome) ==
    LET s == Call("updateNetworkApplianceVlansSettings", network_id,
                  Dict(<< <<<<"v", "lansEnabled">>, Str("true")>> >>), settings_outcome)
        c == Call("createNetworkApplianceVlan", network_id, vlan_config, outcome)
        first == IF settings_outcome = "ok" THEN outcome ELSE settings_outcome
        made == IF settings_outcome = "ok" THEN <<s, c>> ELSE <<s>>
    IN CASE first = "ok" ->
              [error_code |-> None, raised |-> FALSE, calls |-> made,
               response |-> VlanResponse(GetOr(vlan_config, k_id, Str("auto")), vlan_config)]
         [] first = "taken" ->
              IF ~HasKey(vlan_config, k_id)
              THEN [error_code |-> None, raised |-> TRUE, calls |-> made, response |-> None]
              ELSE LET u == update_vlan(network_id, Get(vlan_config, k_id),
                                        Del(vlan_config, k_id), update_outcome)
                   IN [error_code |-> u.error_code, raised |-> FALSE,
                       calls |-> made \o u.calls, response |-> u.response]
         [] first = "sdk_error" ->
              [error_code |-> SdkStatus, raised |-> FALSE, calls |-> made,
               response |-> ErrMsg("createNetworkApplianceVlan")]
         [] OTHER ->
              [error_code |-> ApiStatus, raised |-> FALSE, calls |-> made,
               response |-> ErrMsg("createNetworkApplianceVlan")]

k_name_groupPolicyId == <<"_", "name_groupPolicyId">>

k_vpn == <<"_", "vpn">>

k_dhcp == <<"_", "dhcp">>

k_useVpn == <<"u", "seVpn">>

\* {policy['name']: policy['groupPolicyId']} of the fetched group policies
GroupPolicies == [n \in {"Guest"} |-> "101"]

\* The local variables of a list applier between two loop iterations: whether
\* it has begun, its status so far, how many items are done, and (vlans) the
\* VPN subnets collected so far.
Frame(started, status, n, vpn_subnets) ==
    [started |-> started, status |-> status, n |-> n, vpn_subnets |-> vpn_subnets]

NoFrame == Frame(FALSE, "Success", 0, <<>>)

\* a loop that stops after the first item
ItemsFirstOnly(config) ==
    IF config.t = "list" THEN SubSeq(config.xs, 1, 1)
    ELSE IF config.t = "dict" THEN [i \in 1..Len(config.kv) |-> Str(config.kv[i][1][1] \o config.kv[i][1][2])]
    ELSE <<>>

\* for item in config: a list gives its items, a dict gives its keys (strings)
Items(config) ==
    IF config.t = "list" THEN config.xs
    ELSE IF config.t = "dict" THEN [i \in 1..Len(config.kv) |-> Str(config.kv[i][1][1] \o config.kv[i][1][2])]
    ELSE <<>>

\* the result of one loop iteration: the status and VPN subnets after it, the
\* calls it made, and whether an exception left the applier
Step(status, vpn_subnets, made) ==
    [status |-> status, vpn_subnets |-> vpn_subnets, calls |-> made, raised |-> FALSE]

Raise(made) == [status |-> "", vpn_subnets |-> <<>>, calls |-> made, raised |-> TRUE]

\* variant: the group policy name is passed on when no policy has it
WithGroupPolicyUnchecked(custom_fields, remaining_fields) ==
    LET policy == GetOr(custom_fields, k_name_groupPolicyId, None)
    IN IF policy # None
       THEN Set(remaining_fields, <<"g", "roupPolicyId">>,
                IF policy.s \in DOMAIN GroupPolicies THEN Str(GroupPolicies[policy.s]) ELSE policy)
       ELSE remaining_fields

\* if "_name_groupPolicyId" in custom_fields and its name in net_policy_groups:
\* remaining_fields['groupPolicyId'] = the policy's id
WithGroupPolicy(custom_fields, remaining_fields) ==
    LET policy == GetOr(custom_fields, k_name_groupPolicyId, None)
    IN IF policy # None /\ policy.s \in DOMAIN GroupPolicies
       THEN Set(remaining_fields, <<"g", "roupPolicyId">>, Str(GroupPolicies[policy.s]))
       ELSE remaining_fields

\* one iteration of the for-loop of vlans_config
vlans_item(id, item, status, vpn_subnets, settings_outcome, outcome, update_outcome, dhcp_outcome) ==
    IF item.t # "dict" THEN Raise(<<>>)
    ELSE IF RefFailed(item) THEN Step("Partial", vpn_subnets, <<>>)
    ELSE LET fields == separate_custom_fields(ResolveRef(item))
             custom_fields == fields[1]
             remaining_fields == WithGroupPolicy(custom_fields, fields[2])
             c == create_vlan(id, remaining_fields, settings_outcome, outcome, update_outcome)
         IN IF c.raised THEN Raise(c.calls)
            ELSE IF c.error_code # None THEN Step("Partial", vpn_subnets, c.calls)
            ELSE LET new_vlan == c.response
                     has_vpn == HasKey(custom_fields, k_vpn)
                     vpn_lost == has_vpn /\ RefFailed(Get(custom_fields, k_vpn))
                     subnets ==
                         IF has_vpn /\ ~vpn_lost
                         THEN Append(vpn_subnets,
                                  Dict(<< <<<<"l", "ocalSubnet">>, Get(new_vlan, k_subnet)>>,
                                          <<k_useVpn, GetOr(ResolveRef(Get(custom_fields, k_vpn)),
                                                            k_useVpn, Str("false"))>> >>))
                         ELSE vpn_subnets
                     has_dhcp == HasKey(custom_fields, k_dhcp)
                 IN IF vpn_lost THEN Step("Partial", vpn_subnets, c.calls)
                    ELSE IF ~has_dhcp THEN Step(status, subnets, c.calls)
                    ELSE IF RefFailed(Get(custom_fields, k_dhcp)) THEN Step("Partial", subnets, c.calls)
                    ELSE LET u == update_vlan(id, Get(new_vlan, k_id),
                                              ResolveRef(Get(custom_fields, k_dhcp)), dhcp_outcome)
                         IN Step(IF u.error_code # None THEN "Partial" ELSE status,
                                 subnets, c.calls \o u.calls)

VpnOutcomes == Outcomes \cup {"none"}

\* the site-to-site VPN settings the service returns when VPN is enabled
SiteToSiteVpn == Dict(<< <<k_mode, Str("hub")>>, <<<<"s", "ubnets">>, List(<<>>)>> >>)

\* variant: the VPN update is sent whatever the read of the VPN settings gave
vlans_finish_ignores_mode(id, status, vpn_subnets, get_outcome, outcome, readback_outcome) ==
    LET g == [error_code |-> None, response |-> None,
              calls |-> <<Call("getNetworkApplianceVpnSiteToSiteVpn", id, None, get_outcome)>>]
        u == SdkCallKw("updateNetworkApplianceVpnSiteToSiteVpn", id,
                       Set(SiteToSiteVpn, <<"s", "ubnets">>,
                           List(Get(SiteToSiteVpn, <<"s", "ubnets">>).xs \o vpn_subnets)), outcome)
        b == SdkCall("getNetworkApplianceVlans", id, None, readback_outcome)
    IN IF Len(vpn_subnets) = 0 THEN Ret(status, b.response, b.calls)
       ELSE Ret(IF u.error_code # None THEN "Partial" ELSE status, b.response,
                g.calls \o u.calls \o b.calls)

\* after the loop of vlans_config: the batched VPN subnet update and the
\* read-back; the read of the VPN settings may succeed with mode 'none'
vlans_finish(id, status, vpn_subnets, get_outcome, outcome, readback_outcome) ==
    LET read == SdkCall("getNetworkApplianceVpnSiteToSiteVpn", id, None,
                        IF get_outcome = "none" THEN "ok" ELSE get_outcome)
        g == [read EXCEPT !.calls =
                  <<Call("getNetworkApplianceVpnSiteToSiteVpn", id, None, get_outcome)>>]
        u == SdkCallKw("updateNetworkApplianceVpnSiteToSiteVpn", id,
                       Set(SiteToSiteVpn, <<"s", "ubnets">>,
                           List(Get(SiteToSiteVpn, <<"s", "ubnets">>).xs \o vpn_subnets)), outcome)
        b == SdkCall("getNetworkApplianceVlans", id, None, readback_outcome)
    IN IF Len(vpn_subnets) = 0 THEN Ret(status, b.response, b.calls)
       ELSE IF g.error_code # None \/ get_outcome = "none"
       THEN Ret("Partial", b.response, g.calls \o b.calls)
       ELSE Ret(IF u.error_code # None THEN "Partial" ELSE status, b.response,
                g.calls \o u.calls \o b.calls)

\* ------------------------------------------------ VLAN per port, devices
\* one iteration of the for-loop of vlan_per_port_config: the item is forwarded whole
vlan_per_port_item(id, item, status, outcome) ==
    IF item.t # "dict" THEN Raise(<<>>)
    ELSE IF RefFailed(item) THEN Step("Partial", <<>>, <<>>)
    ELSE LET r == SdkCallKw("updateNetworkAppliancePort", id, ResolveRef(item), outcome)
         IN Step(IF r.error_code # None THEN "Partial" ELSE status, <<>>, r.calls)

\* variant: the ports are only read back when every item succeeded
vlan_per_port_finish_unless_partial(id, status, readback_outcome) ==
    LET b == SdkCall("getNetworkAppliancePorts", id, None, readback_outcome)
    IN IF status = "Partial" THEN Ret(status, None, <<>>) ELSE Ret(status, b.response, b.calls)

vlan_per_port_finish(id, status, readback_outcome) ==
    LET b == SdkCall("getNetworkAppliancePorts", id, None, readback_outcome)
    IN Ret(status, b.response, b.calls)

k_mx_uplinks == <<"_", "mx_uplinks">>

\* one iteration of the for-loop of devices_config
\* variant: the uplink follow-up does not wait for the main update's result
devices_item_uplinks_always(item, status, outcome, uplink_outcome) ==
    IF item.t # "dict" THEN Raise(<<>>)
    ELSE IF RefFailed(item) THEN Step("Partial", <<>>, <<>>)
    ELSE IF ~HasKey(ResolveRef(item), k_serial) THEN Step("Partial", <<>>, <<>>)
    ELSE LET device_config == ResolveRef(item)
             serial == Get(device_config, k_serial).s
             fields == separate_custom_fields(Del(device_config, k_serial))
             custom_fields == fields[1]
             r == SdkCallKw("updateDevice", serial, fields[2], outcome)
             failed == IF r.error_code # None THEN "Partial" ELSE status
         IN IF ~HasKey(custom_fields, k_mx_uplinks) THEN Step(failed, <<>>, r.calls)
            ELSE IF RefFailed(Get(custom_fields, k_mx_uplinks)) THEN Step("Partial", <<>>, r.calls)
            ELSE LET u == SdkCallKw("updateDeviceApplianceUplinksSettings", serial,
                                    ResolveRef(Get(custom_fields, k_mx_uplinks)), uplink_outcome)
                 IN Step(IF u.error_code # None THEN "Partial" ELSE failed, <<>>, r.calls \o u.calls)

devices_item(item, status, outcome, uplink_outcome) ==
    IF item.t # "dict" THEN Raise(<<>>)
    ELSE IF RefFailed(item) THEN Step("Partial", <<>>, <<>>)
    ELSE IF ~HasKey(ResolveRef(item), k_serial) THEN Step("Partial", <<>>, <<>>)
    ELSE LET device_config == ResolveRef(item)
             serial == Get(device_config, k_serial).s
             fields == separate_custom_fields(Del(device_config, k_serial))
             custom_fields == fields[1]
             r == SdkCallKw("updateDevice", serial, fields[2], outcome)
         IN IF r.error_code # None THEN Step("Partial", <<>>, r.calls)
            ELSE IF ~HasKey(custom_fields, k_mx_uplinks) THEN Step(status, <<>>, r.calls)
            ELSE IF RefFailed(Get(custom_fields, k_mx_uplinks)) THEN Step("Partial", <<>>, r.calls)
            ELSE LET u == SdkCallKw("updateDeviceApplianceUplinksSettings", serial,
                                    ResolveRef(Get(custom_fields, k_mx_uplinks)), uplink_outcome)
                 IN Step(IF u.error_code # None THEN "Partial" ELSE status, <<>>, r.calls \o u.calls)

devices_finish(id, status, readback_outcome) ==
    LET b == SdkCall("getNetworkDevices", id, None, readback_outcome)
    IN Ret(status, b.response, b.calls)

\* ---------------------------------------------------------- the documents
KnownSettings ==
    {k_claim, k_firmware, k_siteToSiteVPN, k_amp, k_content_filtering, k_syslog, k_snmp,
     k_vlans, k_vlan_per_port, k_devices, k_traffic_shaping}

SettingKeys == KnownSettings \cup {k_warm_spare}

RECURSIVE ListsOf(_, _)
\* the sequences of at most n elements of S
ListsOf(S, n) ==
    IF n = 0 THEN {<<>>}
    ELSE LET shorter == ListsOf(S, n - 1)
         IN shorter \cup {Append(s, x) : s \in {t \in shorter : Len(t) = n - 1}, x \in S}

VlanItems ==
    {VlanConfig("10"), VlanConfig("30"),
     Set(Set(Set(VlanConfig("20"), <<"_", "name_groupPolicyId">>, Str("Guest")),
             <<"_", "vpn">>, UseVpnConfig), <<"_", "dhcp">>, WithNote(DhcpConfig)),
     Set(Set(VlanConfig("40"), <<"_", "vpn">>, Ref("missing.json")), <<"_", "dhcp">>, Ref("dhcp.json")),
     Ref("missing.json"), Ref("vlan.json")}

PortItems == {PortConfig, WithNote(PortConfig), Ref("missing.json"), Ref("port.json")}

DeviceItems ==
    {DeviceConfig("Q2-A"),
     Set(WithNote(DeviceConfig("Q2-B")), <<"_", "mx_uplinks">>, UplinksConfig),
     Set(DeviceConfig("Q2-D"), <<"_", "mx_uplinks">>, Ref("missing.json")),
     Dict(<< <<k_name, Str("mx")>> >>),
     Ref("missing.json"), Ref("device.json")}

\* the lists of one to MaxItems items of S whose items after the second are
\* in plain
NonEmptyLists(S, plain) ==
    {List(s) : s \in {t \in ListsOf(S, MaxItems) \ {<<>>} : \A i \in 3..Len(t) : t[i] \in plain}}

\* the payloads a section may carry
Payloads(setting) ==
    CASE setting = k_claim -> {ClaimConfig, Ref("missing.json"), Ref("claim.json")}
      [] setting = k_firmware ->
           {FirmwareConfig("MX 18"), FirmwareConfig("MX 99"), FirmwareConfig("MS 16"),
            FirmwareConfigBoth("MX 18", "MS 99"), FirmwareConfigBoth("MX 18", "MS 16"),
            Ref("missing.json"), Ref("firmware.json"), Ref("firmware99.json")}
      [] setting = k_siteToSiteVPN ->
           {SpokeConfig(<<"HQ", "Nowhere">>), SpokeConfig(<<"Nowhere">>), SpokeConfig(<<>>),
            WithNote(Dict(<< <<k_mode, Str("hub")>> >>)), Ref("missing.json"), Ref("s2s.json")}
      [] setting = k_amp -> {AmpConfig, WithNote(AmpConfig), Ref("missing.json"), Ref("amp.json")}
      [] setting = k_content_filtering ->
           {ContentConfig, ContentConfigNamed(<<"Gambling", "Unlisted", "Adult">>),
            WithNote(SyslogConfig), Ref("missing.json"), Ref("content.json")}
      [] setting = k_syslog ->
           {SyslogConfig, WithNote(SyslogConfig), Ref("missing.json"), Ref("syslog.json")}
      [] setting = k_snmp ->
           {SnmpConfig, WithNote(SnmpConfig), Ref("missing.json"), Ref("snmp.json")}
      [] setting = k_vlans -> NonEmptyLists(VlanItems, {VlanConfig("10")}) \cup {Ref("missing.json"), Ref("vlans.json")}
      [] setting = k_vlan_per_port -> NonEmptyLists(PortItems, {PortConfig}) \cup {Ref("missing.json")}
      [] setting = k_devices -> NonEmptyLists(DeviceItems, {DeviceConfig("Q2-A")}) \cup {Ref("missing.json")}
      [] setting = k_traffic_shaping ->
           {ShapingConfig(BandwidthConfig), ShapingConfig(WithNote(BandwidthConfig)),
            ShapingConfig(Ref("missing.json")), ShapingConfig(Ref("bandwidth.json")),
            Ref("missing.json"), Ref("shaping.json")}
      [] OTHER -> {Dict(<< <<<<"e", "nabled">>, Str("true")>> >>)}

\* the payload a section carries in the documents of several sections
DefaultPayload(setting) ==
    CASE setting = k_claim -> ClaimConfig
      [] setting = k_firmware -> FirmwareConfig("MX 18")
      [] setting = k_siteToSiteVPN -> SpokeConfig(<<"HQ">>)
      [] setting = k_amp -> AmpConfig
      [] setting = k_content_filtering -> ContentConfig
      [] setting = k_syslog -> SyslogConfig
      [] setting = k_snmp -> SnmpConfig
      [] setting = k_vlans -> List(<<VlanConfig("10")>>)
      [] setting = k_vlan_per_port -> List(<<PortConfig>>)
      [] setting = k_devices -> List(<<DeviceConfig("Q2-A")>>)
      [] setting = k_traffic_shaping -> ShapingConfig(BandwidthConfig)
      [] OTHER -> Dict(<< <<<<"e", "nabled">>, Str("true")>> >>)

\* the sequences of at most MaxSections distinct section names
SettingLists ==
    {s \in ListsOf(SettingKeys, MaxSections) : \A i, j \in 1..Len(s) : i # j => s[i] # s[j]}

Metadata(name, productTypes) ==
    Dict(<< <<k_name, Str(name)>>, <<k_productTypes, List(productTypes)>> >>)

\* the metadata values of a document; None stands for a document without the key
MetadataChoices ==
    {None, Dict(<<>>),
     Dict(<< <<k_name, Str("Branch1")>> >>),
     Dict(<< <<k_productTypes, List(<<Str("appliance")>>)>> >>),
     Metadata("Branch1", <<>>),
     Metadata("Branch1", <<Str("appliance")>>),
     Metadata("HQ", <<Str("appliance")>>),
     Set(Metadata("Branch1", <<Str("appliance")>>), <<"c", "opyFromNetworkId">>, Str("N_old"))}

\* a network's document: metadata (when given) followed by its sections
NetworkSpec(md, sections) ==
    Dict((IF md = None THEN <<>> ELSE << <<k_metadata, md>> >>) \o sections)

\* the org's networks when the cache was built: net_name_to_id
OrgNetworks == [n \in {"HQ"} |-> "N_HQ"]

\* ------------------------------------------------------ build_new_network
k_creation == <<"c", "reation">>

\* variant: every declared section is entered as Skipped from the start
InitialCompletionDeclared ==
    [name |-> Str("N/A"),
     settings |-> [k \in {k_creation} \cup (KeySet(network_config) \ {k_metadata}) |->
                      IF k = k_creation THEN [status |-> "Failure", output |-> None]
                      ELSE [status |-> "Skipped", output |-> None]]]

\* completion_status as build_new_network first sets it
InitialCompletion ==
    [name |-> Str("N/A"),
     settings |-> [k \in {k_creation} |-> [status |-> "Failure", output |-> None]]]

\* variant: required_fields names "name" only
MetadataMissingNameOnly(md) == Falsy(md) \/ ~HasKey(md, k_name)

\* not metadata or not all(field in metadata for field in required_fields)
MetadataMissing(md) ==
    Falsy(md) \/ ~(\A field \in {k_name, k_productTypes} : HasKey(md, field))

\* the answers to a request that is only made when cond holds
Only(cond, outcomes) == IF cond THEN outcomes ELSE {"ok"}

\* from the entry of build_new_network up to the call of create_network
k_copyFromNetworkId == <<"c", "opyFromNetworkId">>

\* variant: the configured source is attached only when the metadata names none
WithCopyFromKeepsOwn(md, copy_from) ==
    IF ~Falsy(copy_from) /\ ~HasKey(md, k_copyFromNetworkId)
    THEN Set(md, k_copyFromNetworkId, copy_from) ELSE md

\* the metadata with the run's copy-from source attached
WithCopyFrom(md, copy_from) ==
    IF ~Falsy(copy_from) THEN Set(md, k_copyFromNetworkId, copy_from) ELSE md

CheckMetadata ==
    /\ pc = "start"
    /\ LET md == GetOr(network_config, k_metadata, None)
       IN IF MetadataMissing(md)
          THEN /\ returned' = completion_status
               /\ pc' = "done"
               /\ UNCHANGED <<metadata, network_config>>
          ELSE /\ metadata' = WithCopyFrom(md, copy_from_id)
               /\ network_config' = Set(network_config, k_metadata, metadata')
               /\ pc' = "create"
               /\ UNCHANGED returned
    /\ UNCHANGED <<net_name_to_id, copy_from_id, net_id, remaining_settings, position,
                   completion_status, frame, calls, applied>>
    /\ UNCHANGED <<split_vars, given_vars, service_vars, clock_vars, run_vars>>

\* create_network and what build_new_network does with its result, up to the for-loop
\* variant: the cache learns the network that was just created
CacheAfterCreationLearns(name_to_id, r) ==
    IF r.raised \/ r.error_code # None THEN name_to_id
    ELSE [n \in DOMAIN name_to_id \cup {r.response.name.s} |->
             IF n = r.response.name.s THEN r.response.id ELSE name_to_id[n]]

\* the cache after create_network returned: the dict built at import is only read
CacheAfterCreation(name_to_id, r) == name_to_id

CreateNetwork ==
    /\ pc = "create"
    /\ \E outcome \in CreateOutcomes :
       \E update_outcome \in Only(outcome = "taken", Outcomes) :
         LET r == create_network(metadata, net_name_to_id, outcome, update_outcome)
         IN /\ calls' = calls \o r.calls
            /\ net_name_to_id' = CacheAfterCreation(net_name_to_id, r)
            /\ IF r.raised
               THEN /\ pc' = "raised"
                    /\ UNCHANGED <<completion_status, returned, net_id, network_config,
                                   remaining_settings>>
               ELSE IF r.error_code # None
               THEN /\ completion_status' =
                         [name |-> Get(metadata, k_name),
                          settings |-> [completion_status.settings EXCEPT
                                           ![k_creation].output = r.response]]
                    /\ returned' = completion_status'
                    /\ pc' = "done"
                    /\ UNCHANGED <<net_id, network_config, remaining_settings>>
               ELSE /\ net_id' = r.response.id
                    /\ network_config' = Del(network_config, k_metadata)
                    /\ remaining_settings' = Keys(network_config')
                    /\ completion_status' =
                         [name |-> Str(r.response.name.s),
                          settings |->
                             [k \in {k_creation} \cup KeySet(network_config') |->
                                 IF k = k_creation
                                 THEN [status |-> "Success", output |-> r.response]
                                 ELSE [status |-> "Skipped", output |-> None]]]
                    /\ pc' = "settings"
                    /\ UNCHANGED returned
    /\ UNCHANGED <<copy_from_id, metadata, position, frame, applied>>
    /\ UNCHANGED <<split_vars, given_vars, service_vars, clock_vars, run_vars>>

\* the for-loop of build_new_network is at setting
At(setting) ==
    /\ pc = "settings"
    /\ position <= Len(remaining_settings)
    /\ remaining_settings[position] = setting

\* the sleeps of the thread after an applier that returned r: a sleep is
\* entered with the number of requests made before it began and its length
Slept(r) ==
    IF ~r.raised /\ r.slept > 0
    THEN Append(delays, [after |-> Len(calls) + Len(r.calls), seconds |-> r.slept])
    ELSE delays

\* variant: a section that ends in Failure ends the network's run
RecordAbort(setting, r) ==
    /\ calls' = calls \o r.calls
    /\ delays' = Slept(r)
    /\ frame' = NoFrame
    /\ completion_status' =
          [completion_status EXCEPT
              !.settings[setting] = [status |-> r.status, output |-> r.output]]
    /\ position' = position + 1
    /\ IF r.status = "Failure"
       THEN pc' = "done" /\ returned' = completion_status'
       ELSE pc' = "settings" /\ UNCHANGED returned
    /\ UNCHANGED <<network_config, net_name_to_id, copy_from_id, metadata, net_id,
                   remaining_settings>>
    /\ UNCHANGED <<split_vars, given_vars, service_vars, run_vars>>

\* status, output = <applier>(...); completion_status["settings"][setting] = ...
\* and the loop moves on; an exception of the applier leaves build_new_network
Record(setting, r) ==
    /\ calls' = calls \o r.calls
    /\ delays' = Slept(r)
    /\ frame' = NoFrame
    /\ IF r.raised
       THEN /\ pc' = "raised"
            /\ UNCHANGED <<completion_status, position>>
       ELSE /\ completion_status' =
                 [completion_status EXCEPT
                     !.settings[setting] = [status |-> r.status, output |-> r.output]]
            /\ position' = position + 1
            /\ pc' = "settings"
    /\ UNCHANGED <<network_config, net_name_to_id, copy_from_id, metadata, net_id,
                   remaining_settings, returned>>
    /\ UNCHANGED <<split_vars, given_vars, service_vars, run_vars>>

\* the applier of setting is entered now (and not continued)
Enter(setting) == applied' = Append(applied, setting)

ClaimDevices ==
    /\ At(k_claim)
    /\ Enter(k_claim)
    /\ \E outcome \in Outcomes :
         Record(k_claim, claim_devices(net_id, Get(network_config, k_claim), outcome))

FirmwareUpgrade ==
    /\ At(k_firmware)
    /\ Enter(k_firmware)
    /\ \E fetch_outcome \in Outcomes :
       \E outcome \in Only(fetch_outcome = "ok", FirmwareOutcomes) :
         Record(k_firmware,
                firmware_upgrade(net_id, Get(network_config, k_firmware), fetch_outcome, outcome))

SiteToSiteVpnConfig ==
    /\ At(k_siteToSiteVPN)
    /\ Enter(k_siteToSiteVPN)
    /\ \E outcome \in Outcomes :
         Record(k_siteToSiteVPN,
                site_to_site_vpn_config(net_id, net_name_to_id,
                                        Get(network_config, k_siteToSiteVPN), outcome))

AmpConfigure ==
    /\ At(k_amp)
    /\ Enter(k_amp)
    /\ \E outcome \in Outcomes :
         Record(k_amp, amp_config(net_id, Get(network_config, k_amp), outcome))

ContentFilteringConfig ==
    /\ At(k_content_filtering)
    /\ Enter(k_content_filtering)
    /\ \E catalog_outcome \in Outcomes :
       \E outcome \in Only(catalog_outcome = "ok", Outcomes) :
         Record(k_content_filtering,
                content_filtering_config(net_id, Get(network_config, k_content_filtering),
                                         catalog_outcome, outcome))

SyslogServerConfig ==
    /\ At(k_syslog)
    /\ Enter(k_syslog)
    /\ \E outcome \in Outcomes :
         Record(k_syslog, syslog_server_config(net_id, Get(network_config, k_syslog), outcome))

SnmpConfigure ==
    /\ At(k_snmp)
    /\ Enter(k_snmp)
    /\ \E outcome \in Outcomes :
         Record(k_snmp, snmp_config(net_id, Get(network_config, k_snmp), outcome))

TrafficShapingConfig ==
    /\ At(k_traffic_shaping)
    /\ Enter(k_traffic_shaping)
    /\ \E outcome \in Outcomes, readback_outcome \in Outcomes :
         Record(k_traffic_shaping,
                traffic_shaping_config(net_id, Get(network_config, k_traffic_shaping),
                                       outcome, readback_outcome))

\* a list applier is entered at its first step only
EnterOnce(setting) == applied' = IF frame.started THEN applied ELSE Append(applied, setting)

\* the ids of the VLANs that the requests in made created
Created(made) ==
    LET creates == SelectSeq(made, LAMBDA c : c.op = "createNetworkApplianceVlan" /\ c.answer = "ok")
    IN [i \in 1..Len(creates) |-> GetOr(creates[i].payload, k_id, Str("auto"))]

\* the service creates no VLAN with an id it already holds for the network
ServiceAccepts(made) ==
    \A i \in 1..Len(Created(made)) :
        \A j \in 1..Len(service_vlans) : service_vlans[j] # Created(made)[i]

\* a list applier moves to its next item, or an exception leaves build_new_network
Advance(s) ==
    /\ calls' = calls \o s.calls
    /\ service_vlans' = service_vlans \o Created(s.calls)
    /\ UNCHANGED service_networks
    /\ IF s.raised
       THEN pc' = "raised" /\ UNCHANGED frame
       ELSE pc' = "settings" /\ frame' = Frame(TRUE, s.status, frame.n + 1, s.vpn_subnets)
    /\ UNCHANGED <<network_config, net_name_to_id, copy_from_id, metadata, net_id,
                   remaining_settings, position, completion_status, returned>>
    /\ UNCHANGED <<split_vars, given_vars, clock_vars, run_vars>>

\* vlans_config up to its for-loop: the group policies are fetched
VlansBegin ==
    /\ At(k_vlans)
    /\ ~frame.started
    /\ Enter(k_vlans)
    /\ \E outcome \in Outcomes :
         LET g == SdkCall("getNetworkGroupPolicies", net_id, None, outcome)
         IN IF g.error_code # None
            THEN Record(k_vlans, Ret("Failure", [t |-> "group_policies_failure", of |-> g.response],
                                     g.calls))
            ELSE /\ calls' = calls \o g.calls
                 /\ frame' = Frame(TRUE, "Success", 0, <<>>)
                 /\ UNCHANGED <<network_config, net_name_to_id, copy_from_id, pc, metadata, net_id,
                                remaining_settings, position, completion_status, returned>>
                 /\ UNCHANGED <<split_vars, given_vars, service_vars, clock_vars, run_vars>>

VlansItem ==
    /\ At(k_vlans)
    /\ frame.started
    /\ frame.n < Len(Items(Get(network_config, k_vlans)))
    /\ UNCHANGED applied
    /\ \E settings_outcome \in VlanOutcomes :
       \E outcome \in Only(settings_outcome = "ok", VlanOutcomes) :
       \E update_outcome \in Only("taken" \in {settings_outcome, outcome}, Outcomes) :
       \E dhcp_outcome \in Only(update_outcome = "ok" /\ outcome \in {"ok", "taken"}, Outcomes) :
         LET s == vlans_item(net_id, Items(Get(network_config, k_vlans))[frame.n + 1],
                             frame.status, frame.vpn_subnets,
                             settings_outcome, outcome, update_outcome, dhcp_outcome)
         IN ServiceAccepts(s.calls) /\ Advance(s)

VlansFinish ==
    /\ At(k_vlans)
    /\ frame.started
    /\ frame.n = Len(Items(Get(network_config, k_vlans)))
    /\ UNCHANGED applied
    /\ \E get_outcome \in Only(frame.vpn_subnets # <<>>, VpnOutcomes) :
       \E outcome \in Only(get_outcome = "ok", Outcomes), readback_outcome \in Outcomes :
         Record(k_vlans, vlans_finish(net_id, frame.status, frame.vpn_subnets,
                                      get_outcome, outcome, readback_outcome))

VlanPerPortItem ==
    /\ At(k_vlan_per_port)
    /\ frame.n < Len(Items(Get(network_config, k_vlan_per_port)))
    /\ EnterOnce(k_vlan_per_port)
    /\ \E outcome \in Outcomes :
         Advance(vlan_per_port_item(net_id, Items(Get(network_config, k_vlan_per_port))[frame.n + 1],
                                    frame.status, outcome))

VlanPerPortFinish ==
    /\ At(k_vlan_per_port)
    /\ frame.n = Len(Items(Get(network_config, k_vlan_per_port)))
    /\ EnterOnce(k_vlan_per_port)
    /\ \E readback_outcome \in Outcomes :
         Record(k_vlan_per_port, vlan_per_port_finish(net_id, frame.status, readback_outcome))

DevicesItem ==
    /\ At(k_devices)
    /\ frame.n < Len(Items(Get(network_config, k_devices)))
    /\ EnterOnce(k_devices)
    /\ \E outcome \in Outcomes :
       \E uplink_outcome \in Only(outcome = "ok", Outcomes) :
         Advance(devices_item(Items(Get(network_config, k_devices))[frame.n + 1],
                              frame.status, outcome, uplink_outcome))

DevicesFinish ==
    /\ At(k_devices)
    /\ frame.n = Len(Items(Get(network_config, k_devices)))
    /\ EnterOnce(k_devices)
    /\ \E readback_outcome \in Outcomes :
         Record(k_devices, devices_finish(net_id, frame.status, readback_outcome))

\* the else branch: an unknown key is logged and the loop moves on
\* variant: an unrecognised key is recorded as a failed section
UnknownSettingFails ==
    /\ pc = "settings"
    /\ position <= Len(remaining_settings)
    /\ remaining_settings[position] \notin KnownSettings
    /\ position' = position + 1
    /\ completion_status' =
          [completion_status EXCEPT !.settings[remaining_settings[position]].status = "Failure"]
    /\ UNCHANGED <<network_config, net_name_to_id, copy_from_id, pc, metadata, net_id,
                   remaining_settings, returned, frame, calls, applied>>
    /\ UNCHANGED <<split_vars, given_vars, service_vars, clock_vars, run_vars>>

UnknownSetting ==
    /\ pc = "settings"
    /\ position <= Len(remaining_settings)
    /\ remaining_settings[position] \notin KnownSettings
    /\ position' = position + 1
    /\ UNCHANGED <<network_config, net_name_to_id, copy_from_id, pc, metadata, net_id,
                   remaining_settings, completion_status, returned, frame, calls, applied>>
    /\ UNCHANGED <<split_vars, given_vars, service_vars, clock_vars, run_vars>>

\* after the for-loop: return completion_status
Finish ==
    /\ pc = "settings"
    /\ position > Len(remaining_settings)
    /\ returned' = completion_status
    /\ pc' = "done"
    /\ UNCHANGED <<network_config, net_name_to_id, copy_from_id, metadata, net_id,
                   remaining_settings, position, completion_status, frame, calls, applied>>
    /\ UNCHANGED <<split_vars, given_vars, service_vars, clock_vars, run_vars>>

\* the builder before build_new_network runs on document doc
Start(doc) ==
    /\ document = doc
    /\ network_config = doc
    /\ net_name_to_id = OrgNetworks
    /\ pc = "start"
    /\ metadata = None
    /\ net_id = ""
    /\ remaining_settings = <<>>
    /\ position = 1
    /\ completion_status = InitialCompletion
    /\ returned = None
    /\ frame = NoFrame
    /\ calls = <<>>
    /\ applied = <<>>
    /\ service_vlans = <<>>
    /\ service_networks = {}
    /\ delays = <<>>

\* main before any network is submitted
NoRun ==
    /\ networks = <<>>
    /\ futures = <<>>
    /\ completions = <<>>
    /\ unique_settings = {}
    /\ summary_table = None
    /\ main_pc = "idle"
    /\ workers = <<>>

WithDefaults(settings) == [i \in 1..Len(settings) |-> <<settings[i], DefaultPayload(settings[i])>>]

\* a new network with valid metadata and any order of at most MaxSections
\* sections, or any other metadata and at most one section; the sections
\* carry their default payloads
Init ==
    /\ \E md \in MetadataChoices, settings \in SettingLists :
         /\ md = Metadata("Branch1", <<Str("appliance")>>) \/ Len(settings) <= 1
         /\ Start(NetworkSpec(md, WithDefaults(settings)))
    /\ copy_from_id \in {None, Str("N_HQ")}
    /\ split_in = Dict(<<>>)
    /\ split_given = split_in
    /\ split_out = None
    /\ NoRun

Next ==
    \/ CheckMetadata
    \/ CreateNetwork
    \/ ClaimDevices
    \/ FirmwareUpgrade
    \/ SiteToSiteVpnConfig
    \/ AmpConfigure
    \/ ContentFilteringConfig
    \/ SyslogServerConfig
    \/ SnmpConfigure
    \/ VlansBegin
    \/ VlansItem
    \/ VlansFinish
    \/ VlanPerPortItem
    \/ VlanPerPortFinish
    \/ DevicesItem
    \/ DevicesFinish
    \/ TrafficShapingConfig
    \/ UnknownSetting
    \/ Finish

Spec == Init /\ [][Next]_vars

\* the section that follows the section under study in a document of SpecSection
Trailing(setting) == IF setting = k_syslog THEN k_amp ELSE k_syslog

\* a new network with valid metadata and one section with any of its payloads,
\* alone or followed by one more section; with and without a copy-from network
InitSection ==
    /\ \E setting \in SettingKeys, more \in BOOLEAN :
         \E payload \in Payloads(setting) :
            Start(NetworkSpec(Metadata("Branch1", <<Str("appliance")>>), << <<setting, payload>> >>
                                  \o (IF more THEN WithDefaults(<<Trailing(setting)>>) ELSE <<>>)))
    /\ copy_from_id = None
    /\ split_in = Dict(<<>>)
    /\ split_given = split_in
    /\ split_out = None
    /\ NoRun

SpecSection == InitSection /\ [][Next]_vars

\* ------------------------------------- separate_custom_fields on its own
SplitKeys == {k_ref, <<"_", "vpn">>, <<"_", "">>, k_id, k_name, <<"", "">>, <<"v", "lan_id">>}

SplitValues == {Str("a"), Ref("vlan.json"), List(<<Ref("missing.json")>>)}

\* the dicts of at most MaxKeys entries, no key twice
SplitPayloads ==
    {Dict(kv) : kv \in {s \in ListsOf(SplitKeys \X SplitValues, MaxKeys) :
                            \A i, j \in 1..Len(s) : i # j => s[i][1] # s[j][1]}}

InitSplit ==
    /\ Start(NetworkSpec(None, <<>>))
    /\ copy_from_id = None
    /\ split_in \in SplitPayloads
    /\ split_given = split_in
    /\ split_out = None
    /\ NoRun

\* custom_fields, remaining_fields = separate_custom_fields(config)
Separate ==
    /\ split_out = None
    /\ split_out' = separate_custom_fields(split_in)
    /\ UNCHANGED split_in
    /\ UNCHANGED <<builder_vars, given_vars, service_vars, clock_vars, run_vars>>

SpecSplit == InitSplit /\ [][Separate]_vars

\* ------------------------------------------------------------------ main
\* The coordinator: every network is a task of a thread pool, the records are
\* collected as the tasks complete, and the summary table is built from them.
\* A task is build_new_network as a whole; of the record it returns the
\* sections' outputs are left out.

\* ThreadPoolExecutor(max_workers=max_workers)
max_workers == 5

\* the networks of one run are at most this many
MaxNetworks == 7

\* the documents that differ: a new network with VLANs, an existing network
\* with a known and an unknown section, a network without metadata
RunDocs ==
    {NetworkSpec(Metadata("Branch1", <<Str("appliance")>>), WithDefaults(<<k_vlans>>)),
     NetworkSpec(Metadata("HQ", <<Str("appliance")>>), WithDefaults(<<k_amp, k_warm_spare>>)),
     NetworkSpec(None, WithDefaults(<<k_syslog>>))}

\* a new network without sections
PlainDoc == NetworkSpec(Metadata("Branch2", <<Str("appliance")>>), <<>>)

\* day0_config["networks"]: one or two of the documents that differ, or up to
\* MaxNetworks networks without sections
RunNetworks ==
    (ListsOf(RunDocs, 2) \ {<<>>}) \cup {[i \in 1..n |-> PlainDoc] : n \in 1..MaxNetworks}

\* the record of a network whose creation succeeded and whose recognised
\* sections all ended with the given status
SuccessRecord(doc, response, status) ==
    [name |-> Str(response.name.s),
     settings |->
        [k \in {k_creation} \cup KeySet(Del(doc, k_metadata)) |->
            IF k = k_creation THEN [status |-> "Success", output |-> response]
            ELSE IF k \in KnownSettings THEN [status |-> status, output |-> None]
            ELSE [status |-> "Skipped", output |-> None]]]

\* what build_new_network can end with for document doc: a record it
\* returns, or an exception that leaves it
BuilderResults(doc) ==
    LET md == GetOr(doc, k_metadata, None)
    IN IF MetadataMissing(md)
       THEN {[raised |-> FALSE, value |-> InitialCompletion, created |-> None,
             found |-> None]}
       ELSE UNION {
              LET r == create_network(md, net_name_to_id, outcome, update_outcome)
                  created == IF outcome = "ok" THEN Get(md, k_name) ELSE None
              IN IF r.raised THEN {[raised |-> TRUE, value |-> None, created |-> None,
                                    found |-> Get(md, k_name)]}
                 ELSE IF r.error_code # None
                 THEN {[raised |-> FALSE,
                        value |-> [name |-> Get(md, k_name),
                                   settings |-> [InitialCompletion.settings EXCEPT
                                                    ![k_creation].output = r.response]],
                        created |-> None, found |-> None]}
                 ELSE {[raised |-> FALSE, value |-> SuccessRecord(doc, r.response, status),
                        created |-> created, found |-> None] :
                          status \in {"Success", "Partial", "Failure"}} :
              outcome \in CreateOutcomes, update_outcome \in Outcomes}

\* the service creates no second network with a name it gave out since the
\* cache was read, to a builder of this run or to anyone else: the later
\* request is answered with 'taken'
ServiceCreates(result) ==
    result.created = None \/ result.created \notin service_networks

\* the names the service is seen to hold once the builder has ended: the one
\* it created, or the uncached one it reported as taken
ServiceHolds(result) ==
    service_networks \cup ({result.created, result.found} \ {None})

\* a submitted task: pending in the pool's queue, running in a worker thread,
\* collected by main, or finished with a result main never takes
Future(state, result) == [state |-> state, result |-> result]

Running == {i \in 1..Len(futures) : futures[i].state = "running"}

\* a pool that starts a thread for every task
WorkerFreeAlways == TRUE

\* a worker thread is idle or can still be started
WorkerFree == Cardinality(Running) < max_workers

\* a worker takes the oldest pending task and calls build_new_network
StartTask(i) ==
    /\ futures[i].state = "pending"
    /\ \A j \in 1..(i - 1) : futures[j].state # "pending"
    /\ WorkerFree
    /\ futures' = [futures EXCEPT ![i].state = "running"]
    /\ UNCHANGED <<networks, completions, unique_settings, summary_table, main_pc, workers>>
    /\ UNCHANGED <<builder_vars, split_vars, given_vars, service_vars, clock_vars>>

\* a main that keeps the section names of the last record only
CollectLastOnly(result) ==
    IF result.raised
    THEN /\ main_pc' = "raised"
         /\ UNCHANGED <<completions, unique_settings>>
    ELSE /\ completions' = Append(completions, result.value)
         /\ unique_settings' = DOMAIN result.value.settings
         /\ UNCHANGED main_pc

\* for future in as_completed(futures): future.result() gives main the record
\* of the task that ended, or raises in main what the task raised
Collect(result) ==
    IF result.raised
    THEN /\ main_pc' = "raised"
         /\ UNCHANGED <<completions, unique_settings>>
    ELSE /\ completions' = Append(completions, result.value)
         /\ unique_settings' = unique_settings \cup DOMAIN result.value.settings
         /\ UNCHANGED main_pc

\* build_new_network returns or raises in its worker; main, waiting in
\* as_completed, takes the result at once unless an exception ended its loop
FinishTask(i) ==
    /\ futures[i].state = "running"
    /\ \E result \in BuilderResults(networks[i]) :
          /\ ServiceCreates(result)
          /\ service_networks' = ServiceHolds(result)
          /\ IF main_pc = "collect"
             THEN /\ futures' = [futures EXCEPT ![i] = Future("collected", None)]
                  /\ Collect(result)
             ELSE /\ futures' = [futures EXCEPT ![i] = Future("finished", None)]
                  /\ UNCHANGED <<completions, unique_settings, main_pc>>
    /\ UNCHANGED <<networks, summary_table, workers>>
    /\ UNCHANGED <<builder_vars, split_vars, given_vars, service_vlans, clock_vars>>

\* the settings names in the order of Python's sorted()
SettingNamesSorted ==
    <<k_amp, k_claim, k_content_filtering, k_creation, k_devices, k_firmware, k_siteToSiteVPN,
      k_snmp, k_syslog, k_traffic_shaping, k_vlan_per_port, k_vlans, k_warm_spare>>

\* sorted(unique_settings)
sorted(settings) == SelectSeq(SettingNamesSorted, LAMBDA k : k \in settings)

\* a report that writes Skipped where a record has no entry
CellSkipped(completion, key) ==
    IF key \in DOMAIN completion.settings
    THEN LET value == completion.settings[key].status
         IN [text |-> value,
             style |-> IF value = "Success" THEN "green"
                       ELSE IF value = "Partial" THEN "yellow" ELSE "red"]
    ELSE [text |-> "Skipped", style |-> "red"]

\* the cell of a record under the column of key: its status in the status'
\* colour, or the empty string
Cell(completion, key) ==
    IF key \in DOMAIN completion.settings
    THEN LET value == completion.settings[key].status
         IN [text |-> value,
             style |-> IF value = "Success" THEN "green"
                       ELSE IF value = "Partial" THEN "yellow" ELSE "red"]
    ELSE [text |-> "", style |-> ""]

\* after the pool is done: the table's columns (after "Network Name") and rows
Report ==
    /\ main_pc = "collect"
    /\ \A i \in 1..Len(futures) : futures[i].state = "collected"
    /\ summary_table' =
          LET columns == sorted(unique_settings)
          IN [columns |-> columns,
              rows |-> [r \in 1..Len(completions) |->
                           [name |-> completions[r].name,
                            cells |-> [c \in 1..Len(columns) |->
                                          Cell(completions[r], columns[c])]]]]
    /\ main_pc' = "done"
    /\ UNCHANGED <<networks, futures, completions, unique_settings, workers>>
    /\ UNCHANGED <<builder_vars, split_vars, given_vars, service_vars, clock_vars>>

\* main after every network was submitted to the pool
InitRun ==
    /\ Start(NetworkSpec(None, <<>>))
    /\ copy_from_id = None
    /\ split_in = Dict(<<>>)
    /\ split_given = split_in
    /\ split_out = None
    /\ networks \in RunNetworks
    /\ futures = [i \in 1..Len(networks) |-> Future("pending", None)]
    /\ completions = <<>>
    /\ unique_settings = {}
    /\ summary_table = None
    /\ main_pc = "collect"
    /\ workers = <<>>

NextRun ==
    \/ \E i \in 1..Len(futures) : StartTask(i)
    \/ \E i \in 1..Len(futures) : FinishTask(i)
    \/ Report

SpecRun == InitRun /\ [][NextRun]_vars

\* ===================================================== properties checked
\* ------------------------------------------------ what a run has shown
\* the metadata of the document as build_new_network received it
GivenMetadata == GetOr(document, k_metadata, None)

\* the section names the document declares, in its order
DeclaredSections == [i \in 1..Len(Del(document, k_metadata).kv) |-> Del(document, k_metadata).kv[i][1]]

\* the metadata is absent, or lacks "name", or lacks "productTypes"
MetadataIncomplete ==
    \/ GivenMetadata = None
    \/ <<k_name, k_productTypes>> # SelectSeq(<<k_name, k_productTypes>>,
                                                LAMBDA f : f \in KeySet(GivenMetadata))

\* the answer to the create-network request is in, and the creation failed:
\* the create request failed outright, or the update it fell back to failed
CreationFailed ==
    /\ calls # <<>>
    /\ calls[1].op = "createOrganizationNetwork"
    /\ \/ calls[1].answer = "error"
       \/ calls[1].answer = "taken" /\ Len(calls) >= 2 /\ calls[2].answer = "error"

SectionOps == {calls[i].op : i \in 1..Len(calls)} \ {"createOrganizationNetwork", "updateNetwork"}

\* ---------------------------------------------------------------- C1
\* C1: a document whose metadata is absent or lacks "name" or "productTypes"
\* never causes a backend call or an applier to run, and what
\* build_new_network returns for it is the record named "N/A" whose creation
\* status is Failure.
C1_IncompleteMetadataFails ==
    MetadataIncomplete =>
        /\ calls = <<>>
        /\ applied = <<>>
        /\ pc \in {"start", "done"}
        /\ pc = "done" =>
              /\ returned.name = Str("N/A")
              /\ returned.settings[k_creation].status = "Failure"

\* build_new_network has returned for a document that declares sections and
\* whose metadata has a name but no productTypes
C1_Witness ==
    /\ pc = "done"
    /\ MetadataIncomplete
    /\ GivenMetadata # None
    /\ k_name \in KeySet(GivenMetadata)
    /\ Len(DeclaredSections) >= 1

\* ---------------------------------------------------------------- C2
\* the metadata has both required fields, and productTypes is the empty list
EmptyProductTypes ==
    /\ ~MetadataIncomplete
    /\ Get(GivenMetadata, k_productTypes) = List(<<>>)

\* C2: a document whose metadata has an empty productTypes list gets an
\* immediate Failure record, and no backend call is issued for it.
C2_EmptyProductTypesFails ==
    EmptyProductTypes =>
        /\ calls = <<>>
        /\ pc \in {"start", "done"}
        /\ pc = "done" => returned.settings[k_creation].status = "Failure"

\* ---------------------------------------------------------------- C3
\* the create request was answered 'taken' and the name is in the cache
TakenAndCached ==
    /\ calls # <<>>
    /\ calls[1].op = "createOrganizationNetwork"
    /\ calls[1].answer = "taken"
    /\ Get(GivenMetadata, k_name).s \in DOMAIN net_name_to_id

UpdateNetworkCalls == {i \in 1..Len(calls) : calls[i].op = "updateNetwork"}

\* C3: when the create request is answered 'taken' and the name is in the
\* cache, exactly one update-network request follows, addressed to the cached
\* id, and the creation entry carries that request's outcome: Success with the
\* updated network, or Failure with the update's error, never the 'taken' error.
C3_TakenNameUpdatesCachedNetwork ==
    TakenAndCached =>
        /\ UpdateNetworkCalls = {2}
        /\ calls[2].target = net_name_to_id[Get(GivenMetadata, k_name).s]
        /\ calls[2].payload = calls[1].payload
        /\ pc \in {"settings", "done"}
        /\ IF calls[2].answer = "ok"
           THEN /\ completion_status.settings[k_creation].status = "Success"
                /\ completion_status.settings[k_creation].output.id = calls[2].target
           ELSE completion_status.settings[k_creation] =
                   [status |-> "Failure", output |-> ErrMsg("updateNetwork")]
        /\ calls[2].answer # "ok" => pc = "done" /\ returned = completion_status

\* a taken, cached name whose update succeeded, and the builder went on to
\* finish the sections of the document
C3_Witness ==
    /\ TakenAndCached
    /\ Len(calls) >= 3
    /\ calls[2].answer = "ok"
    /\ calls[2].target = "N_HQ"
    /\ pc = "done"

\* ---------------------------------------------------------------- C4
\* C4: once the creation has failed, build_new_network has returned, no
\* applier was entered and no request other than those of the creation was made.
C4_FailedCreationStops ==
    CreationFailed =>
        /\ pc = "done"
        /\ applied = <<>>
        /\ SectionOps = {}
        /\ Len(calls) <= 2

\* the creation failed for a document that declares two sections
C4_Witness ==
    /\ CreationFailed
    /\ pc = "done"
    /\ Len(DeclaredSections) >= 2

\* ---------------------------------------------------------------- C5
\* C5 as stated: the record returned after a failed creation has an entry
\* with status Skipped for every declared section.
C5_FailedCreationListsSkipped ==
    (CreationFailed /\ pc = "done") =>
        \A i \in 1..Len(DeclaredSections) :
            /\ DeclaredSections[i] \in DOMAIN returned.settings
            /\ returned.settings[DeclaredSections[i]].status = "Skipped"

\* C5 as the code has it: the record returned after a failed creation holds
\* the creation entry only, with status Failure and the error as its output;
\* no declared section has an entry in it.
C5_FailedCreationRecordsCreationOnly ==
    (CreationFailed /\ pc = "done") =>
        /\ DOMAIN returned.settings = {k_creation}
        /\ returned.settings[k_creation].status = "Failure"
        /\ returned.settings[k_creation].output \in
              {ErrMsg("createOrganizationNetwork"), ErrMsg("updateNetwork")}
        /\ returned.name = Get(GivenMetadata, k_name)

\* a failed creation's record for a document with a declared section
C5_Witness ==
    /\ CreationFailed
    /\ pc = "done"
    /\ Len(DeclaredSections) >= 1
    /\ returned.settings[k_creation].output = ErrMsg("createOrganizationNetwork")

\* ---------------------------------------------------------------- C6
\* the answer to the creation is in, and the network was created or updated
CreationSucceeded ==
    /\ calls # <<>>
    /\ calls[1].op = "createOrganizationNetwork"
    /\ \/ calls[1].answer = "ok"
       \/ calls[1].answer = "taken" /\ Len(calls) >= 2 /\ calls[2].answer = "ok"

\* the declared sections that build_new_network has an applier for
RecognisedDeclared == SelectSeq(DeclaredSections, LAMBDA s : s \in KnownSettings)

\* how many times the applier of section s was entered
Times(s) == Cardinality({i \in 1..Len(applied) : applied[i] = s})

\* C6: after a successful creation no applier's Failure or Partial stops the
\* run: no applier is entered twice, the for-loop is at a declared section or
\* just past the last one until build_new_network returns, and when it has
\* returned every declared recognised section's applier was entered exactly
\* once and has its status in the record.
C6_SectionFailuresDoNotAbort ==
    CreationSucceeded =>
        /\ pc \in {"settings", "done"}
        /\ \A s \in KnownSettings : Times(s) <= 1
        /\ pc = "settings" => position \in 1..(Len(DeclaredSections) + 1)
        /\ pc = "done" <=> position = Len(DeclaredSections) + 1 /\ returned # None
        /\ pc = "done" =>
              \A i \in 1..Len(RecognisedDeclared) :
                  /\ Times(RecognisedDeclared[i]) = 1
                  /\ returned.settings[RecognisedDeclared[i]].status
                        \in {"Success", "Partial", "Failure"}

\* the first of two sections ended in Failure or Partial, and the second one
\* was applied all the same
C6_Witness ==
    /\ CreationSucceeded
    /\ pc = "done"
    /\ Len(applied) = 2
    /\ returned.settings[applied[1]].status \in {"Failure", "Partial"}
    /\ returned.settings[applied[2]].status = "Success"

\* ---------------------------------------------------------------- C7
\* the order of the if/elif chain of build_new_network
Precedence ==
    <<k_claim, k_firmware, k_siteToSiteVPN, k_amp, k_content_filtering, k_syslog, k_snmp,
      k_vlans, k_vlan_per_port, k_devices, k_traffic_shaping>>

Rank(s) == CHOOSE i \in 1..Len(Precedence) : Precedence[i] = s

IsMissingRef(v) ==
    /\ v.t = "dict"
    /\ k_ref \in KeySet(v)
    /\ Get(v, k_ref).s \notin DOMAIN ConfigFiles

\* the first declared section and its payload
FirstSection == Del(document, k_metadata).kv[1]

\* the first declared section names a missing fragment, itself or in an item
FirstSectionMissesFragment ==
    /\ Len(DeclaredSections) >= 1
    /\ FirstSection[1] \in KnownSettings
    /\ \/ IsMissingRef(FirstSection[2])
       \/ /\ FirstSection[2].t = "list"
          /\ \E i \in 1..Len(FirstSection[2].xs) : IsMissingRef(FirstSection[2].xs[i])

\* C8: a section that names a missing fragment, at section level or in an
\* item of its list, ends with status Failure or Partial, and the sections
\* after it are applied all the same.
C8_MissingFragmentNeverAborts ==
    (CreationSucceeded /\ FirstSectionMissesFragment) =>
        /\ pc # "raised"
        /\ pc = "done" =>
              /\ returned.settings[FirstSection[1]].status \in {"Failure", "Partial"}
              /\ \A i \in 1..Len(RecognisedDeclared) : Times(RecognisedDeclared[i]) = 1

\* ---------------------------------------------------------------- C9
\* C9: no dict sent to the service has a top-level key that starts with "_".
C9_NoUnderscoreKeyForwarded ==
    \A i \in 1..Len(calls) :
        calls[i].payload.t = "dict" =>
            \A j \in 1..Len(calls[i].payload.kv) : calls[i].payload.kv[j][1][1] # "_"

\* --------------------------------------------------------------- C10
\* the position of key k in dict d
PositionOf(d, k) == CHOOSE i \in 1..Len(d.kv) : d.kv[i][1] = k

\* part holds exactly the entries of whole whose keys are in S: each key once,
\* with whole's value, in whole's relative order
IsRestriction(part, whole, S) ==
    /\ part.t = "dict"
    /\ {part.kv[i][1] : i \in 1..Len(part.kv)} = S
    /\ Len(part.kv) = Cardinality(S)
    /\ \A i \in 1..Len(part.kv) : part.kv[i] = whole.kv[PositionOf(whole, part.kv[i][1])]
    /\ \A i, j \in 1..Len(part.kv) :
          i < j => PositionOf(whole, part.kv[i][1]) < PositionOf(whole, part.kv[j][1])

UnderscoreKeys(d) == {d.kv[i][1] : i \in {j \in 1..Len(d.kv) : d.kv[j][1][1] = "_"}}

OtherKeys(d) == {d.kv[i][1] : i \in {j \in 1..Len(d.kv) : d.kv[j][1][1] # "_"}}

\* C10: separate_custom_fields returns the pair (derived, remaining) where
\* derived is the payload restricted to its keys that start with "_" and
\* remaining the payload restricted to its other keys, both in the payload's
\* order and with the payload's values as they are, and the payload is the
\* same after the call as before.
C10_SeparatePartitions ==
    split_out # None =>
        /\ IsRestriction(split_out[1], split_given, UnderscoreKeys(split_given))
        /\ IsRestriction(split_out[2], split_given, OtherKeys(split_given))
        /\ split_in = split_given

\* a payload with a derived key and a plain key whose value holds a "_ref" of
\* its own: the value went to remaining as it was
C10_Witness ==
    /\ split_out # None
    /\ Len(split_given.kv) = 2
    /\ split_out[1].kv = << <<k_ref, Str("a")>> >>
    /\ split_out[2].kv = << <<k_name, Ref("vlan.json")>> >>

\* --------------------------------------------------------------- C11
\* the payload the first section's applier works on: the fragment a
\* section-level "_ref" names when the file exists, the payload itself otherwise
FirstResolved ==
    IF /\ FirstSection[2].t = "dict"
       /\ k_ref \in KeySet(FirstSection[2])
       /\ Get(FirstSection[2], k_ref).s \in DOMAIN ConfigFiles
    THEN ConfigFiles[Get(FirstSection[2], k_ref).s]
    ELSE FirstSection[2]

\* the version names the service lists, current or available, for any product
ListedVersionNames ==
    UNION {{FirmwareProducts[i].currentVersion.shortName}
           \cup {FirmwareProducts[i].availableVersions[j].shortName :
                    j \in 1..Len(FirmwareProducts[i].availableVersions)} :
           i \in 1..Len(FirmwareProducts)}

\* the "_name_id" names the products of firmware config cfg ask for, in order
AskedVersionNames(cfg) ==
    LET products == Get(cfg, k_products).kv
    IN [i \in 1..Len(products) |->
           Get(Get(Get(products[i][2], k_nextUpgrade), k_toVersion), k_name_id).s]

\* the first section is firmware and one of its products asks for a version
\* name the service does not list
FirmwareAsksUnlisted ==
    /\ Len(DeclaredSections) >= 1
    /\ FirstSection[1] = k_firmware
    /\ FirstResolved.t = "dict"
    /\ k_products \in KeySet(FirstResolved)
    /\ \E i \in 1..Len(AskedVersionNames(FirstResolved)) :
          AskedVersionNames(FirstResolved)[i] \notin ListedVersionNames

\* C11: a firmware section with a product whose version name is not listed
\* ends in Failure, and the upgrade is never requested for it, whether or
\* not an earlier product's name was listed.
C11_UnlistedVersionNeverTriggers ==
    FirmwareAsksUnlisted =>
        /\ \A i \in 1..Len(calls) : calls[i].op # "updateNetworkFirmwareUpgrades"
        /\ k_firmware \in {applied[i] : i \in 1..Len(applied)} =>
              completion_status.settings[k_firmware].status = "Failure"

\* the versions were fetched, the first product's name is listed, the second
\* one's is not, and the section is recorded
C11_Witness ==
    /\ FirmwareAsksUnlisted
    /\ Len(AskedVersionNames(FirstResolved)) = 2
    /\ AskedVersionNames(FirstResolved)[1] \in ListedVersionNames
    /\ \E i \in 1..Len(calls) :
          calls[i].op = "getNetworkFirmwareUpgrades" /\ calls[i].answer = "ok"
    /\ pc = "done"
    /\ returned.settings[k_firmware].output = [t |-> "unknown_version", name |-> Str("MS 99")]

\* --------------------------------------------------------------- C12
\* the first section is siteToSiteVPN in spoke mode, and it gives no hubs or
\* only hubs whose names are not in the name -> id cache
SpokeWithoutKnownHub ==
    /\ Len(DeclaredSections) >= 1
    /\ FirstSection[1] = k_siteToSiteVPN
    /\ FirstResolved.t = "dict"
    /\ k_mode \in KeySet(FirstResolved)
    /\ Get(FirstResolved, k_mode) = Str("spoke")
    /\ \/ k_hubs \notin KeySet(FirstResolved)
       \/ \A i \in 1..Len(Get(FirstResolved, k_hubs).xs) :
             Get(Get(FirstResolved, k_hubs).xs[i], k_hubId).s \notin DOMAIN net_name_to_id

\* C12: a spoke without hubs, or with none of its hubs in the cache, is sent
\* to the service with mode = hub.
C12_SpokeWithoutKnownHubSentAsHub ==
    SpokeWithoutKnownHub =>
        \A i \in 1..Len(calls) :
            calls[i].op = "updateNetworkApplianceVpnSiteToSiteVpn" =>
                Get(calls[i].payload, k_mode) = Str("hub")

\* --------------------------------------------------------------- C13
\* the first section is a vlans list that gives the same VLAN twice
SameVlanTwice ==
    /\ Len(DeclaredSections) >= 1
    /\ FirstSection = <<k_vlans, List(<<VlanConfig("10"), VlanConfig("10")>>)>>

\* the requests of the vlans applier whose failure lowers its status
VlanRequests ==
    {"getNetworkGroupPolicies", "updateNetworkApplianceVlansSettings",
     "createNetworkApplianceVlan", "updateNetworkApplianceVlan"}

\* C13: the service never holds two VLANs with one id; a create request it
\* answers 'taken' is followed at once by an update of the VLAN with that id,
\* carrying the same fields without the id; and when the same VLAN is given
\* twice, the section's status is that of the update: Success exactly when no
\* request of the applier failed, the 'taken' answer not counting as a failure.
C13_SameVlanTwiceUpdates ==
    /\ \A i, j \in 1..Len(service_vlans) : i # j => service_vlans[i] # service_vlans[j]
    /\ \A i \in 1..Len(calls) :
          (calls[i].op = "createNetworkApplianceVlan" /\ calls[i].answer = "taken") =>
              /\ i < Len(calls)
              /\ calls[i + 1].op = "updateNetworkApplianceVlan"
              /\ calls[i + 1].target = calls[i].target
              /\ calls[i + 1].vlan = Get(calls[i].payload, k_id).s
              /\ calls[i + 1].payload =
                    [t |-> "dict",
                     kv |-> SelectSeq(calls[i].payload.kv, LAMBDA p : p[1] # k_id)]
    /\ (SameVlanTwice /\ CreationSucceeded /\ pc = "done") =>
          /\ Cardinality({i \in 1..Len(calls) :
                             calls[i].op = "createNetworkApplianceVlan" /\ calls[i].answer = "ok"}) <= 1
          /\ returned.settings[k_vlans].status = "Success"
                <=> \A i \in 1..Len(calls) :
                       calls[i].op \in VlanRequests => calls[i].answer # "error"

\* the same VLAN given twice: created the first time, reported taken and
\* updated the second time, and the section ends in Success
C13_Witness ==
    /\ SameVlanTwice
    /\ pc = "done"
    /\ service_vlans = <<Str("10")>>
    /\ \E i, j \in 1..Len(calls) :
          /\ i < j
          /\ calls[i].op = "createNetworkApplianceVlan" /\ calls[i].answer = "ok"
          /\ calls[j].op = "createNetworkApplianceVlan" /\ calls[j].answer = "taken"
          /\ calls[j + 1].op = "updateNetworkApplianceVlan" /\ calls[j + 1].answer = "ok"
    /\ returned.settings[k_vlans].status = "Success"

\* C14: at no time are more than five invocations of build_new_network in
\* progress, however many networks the configuration declares.
C14_AtMostFiveBuildersRunning == Cardinality(Running) <= 5

\* five builders are in progress while further networks wait for a worker
C14_Witness ==
    /\ Cardinality(Running) = 5
    /\ \E i \in 1..Len(futures) : futures[i].state = "pending"
    /\ Len(networks) > 5

\* every task of the pool has ended
RunEnded == \A i \in 1..Len(futures) : futures[i].state \in {"collected", "finished"}

\* C15: no error while one network is built keeps main from collecting the
\* record of any other network: main's loop is never ended by an exception,
\* and once every task has ended main holds one record per declared network.
C15_EveryNetworkCollected ==
    /\ main_pc # "raised"
    /\ RunEnded => Len(completions) = Len(networks)

\* the section names of all the records main collected
CollectedNames == UNION {DOMAIN completions[r].settings : r \in 1..Len(completions)}

\* the place of a section name in alphabetical order
Alphabetical(k) == CHOOSE i \in 1..Len(SettingNamesSorted) : SettingNamesSorted[i] = k

\* the report was built
Reported == main_pc = "done" /\ summary_table # None

\* C17: the report's columns are the section names of all collected records
\* together, each once and in sorted order, and its rows are the collected
\* records, one row each in the order of collection, one cell per column.
C17_ColumnsAreSortedUnion ==
    Reported =>
        LET columns == summary_table.columns
            rows == summary_table.rows
        IN /\ {columns[c] : c \in 1..Len(columns)} = CollectedNames
           /\ \A c, d \in 1..Len(columns) :
                 c < d => Alphabetical(columns[c]) < Alphabetical(columns[d])
           /\ Len(rows) = Len(completions)
           /\ \A r \in 1..Len(rows) :
                 /\ rows[r].name = completions[r].name
                 /\ Len(rows[r].cells) = Len(columns)

\* a report of two records neither of which has every column
C17_Witness ==
    /\ Reported
    /\ Len(completions) = 2
    /\ \A r \in 1..2 : DOMAIN completions[r].settings # CollectedNames
    /\ Len(summary_table.columns) > 2

\* C18 as stated: the cell of a network under a section it has no entry for
\* shows Skipped.
C18_UndeclaredCellShowsSkipped ==
    Reported =>
        \A r \in 1..Len(completions), c \in 1..Len(summary_table.columns) :
            summary_table.columns[c] \notin DOMAIN completions[r].settings
                => summary_table.rows[r].cells[c].text = "Skipped"

\* C18 amended: the cell of a network under a section it has no entry for is
\* empty, and every other cell shows the status of the network's entry.
C18_UndeclaredCellIsEmpty ==
    Reported =>
        \A r \in 1..Len(completions), c \in 1..Len(summary_table.columns) :
            LET key == summary_table.columns[c]
                cell == summary_table.rows[r].cells[c]
            IN IF key \in DOMAIN completions[r].settings
               THEN cell.text = completions[r].settings[key].status
               ELSE cell.text = ""

\* a report in which a network lacks a section another network declared,
\* next to a section it declared itself and that was skipped
C18_Witness ==
    /\ Reported
    /\ \E r \in 1..Len(completions), c, d \in 1..Len(summary_table.columns) :
          /\ summary_table.columns[c] \notin DOMAIN completions[r].settings
          /\ summary_table.rows[r].cells[c].text = ""
          /\ summary_table.rows[r].cells[d].text = "Skipped"

\* --------------------------------------------------------------- C16
\* the first section is a vlans list whose items are dicts without a key that
\* starts with "_"
PlainVlansList ==
    /\ Len(DeclaredSections) >= 1
    /\ FirstSection[1] = k_vlans
    /\ FirstSection[2].t = "list"
    /\ \A i \in 1..Len(FirstSection[2].xs) :
          /\ FirstSection[2].xs[i].t = "dict"
          /\ UnderscoreKeys(FirstSection[2].xs[i]) = {}

\* every request sent so far succeeded
EveryCallSucceeded == \A i \in 1..Len(calls) : calls[i].answer = "ok"

\* the payloads of the VLAN create requests, in the order they were sent
VlanCreatePayloads ==
    LET creates == SelectSeq(calls, LAMBDA c : c.op = "createNetworkApplianceVlan")
    IN [i \in 1..Len(creates) |-> creates[i].payload]

\* C16: for valid metadata and a vlans list of items without "_" keys, when
\* every request succeeds the record has creation = Success and vlans =
\* Success, and the VLAN create requests are one per item, in the items'
\* order, each carrying exactly the fields of its item.
C16_PlainVlansCreatedOncePerItem ==
    (PlainVlansList /\ EveryCallSucceeded /\ pc = "done") =>
        /\ returned.settings[k_creation].status = "Success"
        /\ VlanCreatePayloads = FirstSection[2].xs
        /\ returned.settings[k_vlans].status = "Success"

\* two different plain VLANs were created by one request each
C16_Witness ==
    /\ PlainVlansList
    /\ EveryCallSucceeded
    /\ pc = "done"
    /\ FirstSection[2].xs = <<VlanConfig("10"), VlanConfig("30")>>
    /\ VlanCreatePayloads = <<VlanConfig("10"), VlanConfig("30")>>
    /\ service_vlans = <<Str("10"), Str("30")>>
    /\ returned.settings[k_vlans].status = "Success"

\* --------------------------------------------------------------- C19
\* the payload of the first declared section is itself {"_ref": f} with no
\* fragment f, and the section has an applier
SectionIsMissingRef ==
    /\ Len(DeclaredSections) >= 1
    /\ FirstSection[1] \in KnownSettings
    /\ IsMissingRef(FirstSection[2])

\* C19: whichever applier it is, when the section's payload is {"_ref": f}
\* and fragment f does not exist, no exception leaves the applier, it sends
\* no request at all, and the section is recorded as Failure with an output
\* that says so.
C19_MissingSectionFragmentFailsWithoutCall ==
    (CreationSucceeded /\ SectionIsMissingRef) =>
        /\ pc # "raised"
        /\ Len(applied) <= 1 => SectionOps = {}
        /\ position > 1 =>
              /\ completion_status.settings[FirstSection[1]].status = "Failure"
              /\ completion_status.settings[FirstSection[1]].output # None

\* --------------------------------------------------------------- C20
\* the appliers of a section whose payload is one object
SinglePayloadSettings ==
    {k_claim, k_firmware, k_siteToSiteVPN, k_amp, k_content_filtering, k_syslog, k_snmp,
     k_traffic_shaping}

\* the payload of the first declared section is {"_ref": f} with a fragment f,
\* and the section is one of a single payload
SectionIsResolvableRef ==
    /\ Len(DeclaredSections) >= 1
    /\ FirstSection[1] \in SinglePayloadSettings
    /\ FirstSection[2].t = "dict"
    /\ KeySet(FirstSection[2]) = {k_ref}
    /\ Get(FirstSection[2], k_ref).s \in DOMAIN ConfigFiles

\* C20: when the payload of a single-payload section is {"_ref": f} and
\* fragment f exists, no request of its applier carries the {"_ref": f}
\* object or any object with a "_ref" key: what is sent comes from the
\* fragment's contents.
C20_ResolvedFragmentIsSent ==
    (CreationSucceeded /\ SectionIsResolvableRef /\ Len(applied) <= 1) =>
        \A i \in 1..Len(calls) :
            (calls[i].op \in SectionOps /\ calls[i].payload.t = "dict") =>
                /\ calls[i].payload # FirstSection[2]
                /\ ~HasKey(calls[i].payload, k_ref)

\* --------------------------------------------------------------- C21
\* the hubs the first section gives, once its fragment is resolved
GivenHubs == Get(FirstResolved, k_hubs).xs

\* the name of hub is a key of the name-to-id cache
HubIsKnown(hub) == HasKey(hub, k_hubId) /\ Get(hub, k_hubId).s \in DOMAIN net_name_to_id

\* the first section is a spoke with several hubs of which some, not all,
\* are in the cache
SpokeWithSomeKnownHubs ==
    /\ Len(DeclaredSections) >= 1
    /\ FirstSection[1] = k_siteToSiteVPN
    /\ FirstResolved.t = "dict"
    /\ GetOr(FirstResolved, k_mode, None) = Str("spoke")
    /\ HasKey(FirstResolved, k_hubs)
    /\ \E i \in 1..Len(GivenHubs) : HubIsKnown(GivenHubs[i])
    /\ \E i \in 1..Len(GivenHubs) : ~HubIsKnown(GivenHubs[i])

\* C21: for a spoke of which only some hubs are in the cache, the hubs sent
\* with the site-to-site VPN update are exactly the hubs in the cache, in the
\* given order, each with its name replaced by the cached id; and when the
\* update succeeds the section is recorded as Success.
C21_OnlyTranslatedHubsSent ==
    SpokeWithSomeKnownHubs =>
        /\ \A i \in 1..Len(calls) :
              calls[i].op = "updateNetworkApplianceVpnSiteToSiteVpn" =>
                 Get(calls[i].payload, k_hubs).xs =
                    LET known == SelectSeq(GivenHubs, HubIsKnown)
                    IN [j \in 1..Len(known) |->
                           Set(known[j], k_hubId, Str(net_name_to_id[Get(known[j], k_hubId).s]))]
        /\ (position > 1 /\ calls[Len(calls)].answer = "ok" /\ Len(applied) = 1) =>
              completion_status.settings[k_siteToSiteVPN].status = "Success"

\* --------------------------------------------------------------- C22
\* the service answered the firmware upgrade request "already on this version"
AlreadyOnVersion ==
    \E i \in 1..Len(calls) :
        calls[i].op = "updateNetworkFirmwareUpgrades" /\ calls[i].answer = "already"

\* C22: when the service answers the firmware upgrade request with "already
\* on this version", the firmware section is recorded as Success.
C22_AlreadyOnVersionIsSuccess ==
    AlreadyOnVersion => completion_status.settings[k_firmware].status = "Success"

\* build_new_network returned a record whose firmware section is Success
\* after the service answered "already on this version"
C22_Witness ==
    /\ AlreadyOnVersion
    /\ pc = "done"
    /\ returned.settings[k_firmware].status = "Success"

\* --------------------------------------------------------------- C23
\* the first section is content_filtering and names the categories to block
BlocksNamedCategories ==
    /\ Len(DeclaredSections) >= 1
    /\ FirstSection[1] = k_content_filtering
    /\ FirstResolved.t = "dict"
    /\ HasKey(FirstResolved, k_name_blockedUrlCategories)

\* the names the first section asks to block
RequestedCategories == Get(FirstResolved, k_name_blockedUrlCategories).xs

\* the ids of the requested names the catalog has, in the requested order
RequestedCategoryIds ==
    LET listed == SelectSeq(RequestedCategories, LAMBDA n : n.s \in DOMAIN ContentCategories)
    IN [i \in 1..Len(listed) |-> Str(ContentCategories[listed[i].s])]

\* C23: when content_filtering names the categories to block, an update is
\* only sent right after a catalog fetch that succeeded; its payload is the
\* fields whose key does not start with "_" together with
\* blockedUrlCategories = the catalog ids of the requested names the catalog
\* has, in requested order; and when the catalog fetch fails no update is
\* sent and the section is recorded as Failure.
C23_NamedCategoriesTranslated ==
    (BlocksNamedCategories /\ Len(applied) = 1) =>
        /\ \A i \in 1..Len(calls) :
              calls[i].op = "updateNetworkApplianceContentFiltering" =>
                 /\ i > 1
                 /\ calls[i - 1].op = "getNetworkApplianceContentFilteringCategories"
                 /\ calls[i - 1].answer = "ok"
                 /\ UnderscoreKeys(calls[i].payload) = {}
                 /\ Get(calls[i].payload, k_blockedUrlCategories) = List(RequestedCategoryIds)
                 /\ \A k \in OtherKeys(FirstResolved) :
                       Get(calls[i].payload, k) = Get(FirstResolved, k)
                 /\ KeySet(calls[i].payload) = OtherKeys(FirstResolved) \cup {k_blockedUrlCategories}
        /\ \A i \in 1..Len(calls) :
              (calls[i].op = "getNetworkApplianceContentFilteringCategories"
                  /\ calls[i].answer = "error") =>
                 /\ i = Len(calls)
                 /\ completion_status.settings[k_content_filtering].status = "Failure"

\* two of three requested names were translated, in the requested order
C23_Witness ==
    /\ BlocksNamedCategories
    /\ Len(RequestedCategories) = 3
    /\ \E i \in 1..Len(calls) :
          /\ calls[i].op = "updateNetworkApplianceContentFiltering"
          /\ Get(calls[i].payload, k_blockedUrlCategories) = List(<<Str("cat/2"), Str("cat/1")>>)
    /\ pc = "done"

\* --------------------------------------------------------------- C24
ListSettings == {k_vlans, k_vlan_per_port, k_devices}

\* the first section is a list applier's and its payload is a list
ListSection ==
    /\ Len(DeclaredSections) >= 1
    /\ FirstSection[1] \in ListSettings
    /\ FirstSection[2].t = "list"

\* the items of the first section
GivenItems == FirstSection[2].xs

\* the first request a list applier sends for an item
FirstRequestOf(setting) ==
    CASE setting = k_vlans -> "updateNetworkApplianceVlansSettings"
      [] setting = k_vlan_per_port -> "updateNetworkAppliancePort"
      [] OTHER -> "updateDevice"

\* an item for which the applier has something to send: its fragment, if it
\* names one, exists, and a device has a serial
Sendable(item, setting) ==
    /\ ~IsMissingRef(item)
    /\ setting = k_devices =>
          HasKey(IF HasKey(item, k_ref) THEN ConfigFiles[Get(item, k_ref).s] ELSE item, k_serial)

\* the first section is recorded and no later applier was entered
FirstSectionRecorded == position > 1 /\ Len(applied) = 1

\* the applier of the first section reached its loop and is recorded: the
\* vlans applier does not reach it when it cannot fetch the group policies
LoopRecorded ==
    /\ FirstSectionRecorded
    /\ \A i \in 1..Len(calls) : calls[i].op = "getNetworkGroupPolicies" => calls[i].answer = "ok"

\* the batched VPN update of the vlans applier was attempted
VpnBatchRan ==
    \E i \in 1..Len(calls) : calls[i].op = "getNetworkApplianceVpnSiteToSiteVpn"

\* C24: in a list applier no failing item stops the loop: no exception
\* leaves the applier and every item that can be sent is sent, whatever
\* happened to the items before it; and the section is Partial only when an
\* item failed while another succeeded, so (the VPN batch aside) never for a
\* list of one item.
C24_ItemFailuresIsolatedAndPartialMixed ==
    (CreationSucceeded /\ ListSection) =>
        /\ pc # "raised"
        /\ LoopRecorded =>
              /\ Cardinality({i \in 1..Len(calls) : calls[i].op = FirstRequestOf(FirstSection[1])})
                    = Cardinality({j \in 1..Len(GivenItems) : Sendable(GivenItems[j], FirstSection[1])})
              /\ (completion_status.settings[FirstSection[1]].status = "Partial" /\ ~VpnBatchRan)
                    => Len(GivenItems) >= 2

\* the part of C24 that the appliers keep: no failing item stops the loop
C24_ItemFailuresIsolated ==
    (CreationSucceeded /\ ListSection) =>
        /\ pc # "raised"
        /\ LoopRecorded =>
              Cardinality({i \in 1..Len(calls) : calls[i].op = FirstRequestOf(FirstSection[1])})
                 = Cardinality({j \in 1..Len(GivenItems) : Sendable(GivenItems[j], FirstSection[1])})

\* --------------------------------------------------------------- C25
\* the first section is a vlans list
VlansSection == ListSection /\ FirstSection[1] = k_vlans

VpnUpdates == {i \in 1..Len(calls) : calls[i].op = "updateNetworkApplianceVpnSiteToSiteVpn"}

\* the requests of the vlans applier's loop
VlanItemRequests ==
    {"updateNetworkApplianceVlansSettings", "createNetworkApplianceVlan",
     "updateNetworkApplianceVlan"}

\* an item as the applier reads it: the fragment it names, or itself
ItemResolved(item) == IF HasKey(item, k_ref) THEN ConfigFiles[Get(item, k_ref).s] ELSE item

\* an item with a _vpn sub-config that can be resolved
HasResolvedVpn(item) ==
    /\ Sendable(item, k_vlans)
    /\ HasKey(ItemResolved(item), k_vpn)
    /\ ~IsMissingRef(Get(ItemResolved(item), k_vpn))

\* the request at k of the call log settled a VLAN: a create that succeeded,
\* or a request answered 'taken' whose update succeeded
VlanSettled(k) ==
    \/ calls[k].op = "createNetworkApplianceVlan" /\ calls[k].answer = "ok"
    \/ /\ calls[k].op \in {"createNetworkApplianceVlan", "updateNetworkApplianceVlansSettings"}
       /\ calls[k].answer = "taken"
       /\ k < Len(calls)
       /\ calls[k + 1].op = "updateNetworkApplianceVlan"
       /\ calls[k + 1].answer = "ok"

\* the id of the VLAN settled at k
SettledId(k) ==
    IF calls[k].op = "createNetworkApplianceVlan" /\ calls[k].answer = "ok"
    THEN Get(calls[k].payload, k_id).s ELSE calls[k + 1].vlan

\* the subnet of the VLAN settled at k
SettledSubnet(k) ==
    IF calls[k].op = "createNetworkApplianceVlan" /\ calls[k].answer = "ok"
    THEN Get(calls[k].payload, k_subnet) ELSE Get(calls[k + 1].payload, k_subnet)

\* the given item with VLAN id vlan_id that has a resolved _vpn sub-config
VpnItemsOf(vlan_id) ==
    {j \in 1..Len(GivenItems) :
        HasResolvedVpn(GivenItems[j]) /\ Get(ItemResolved(GivenItems[j]), k_id).s = vlan_id}

\* the entries expected in the VPN update: one per settled VLAN whose item
\* has a resolved _vpn sub-config, in the order the VLANs were settled
ExpectedVpnSubnets ==
    LET settled == SelectSeq([k \in 1..Len(calls) |-> k],
                             LAMBDA k : VlanSettled(k) /\ VpnItemsOf(SettledId(k)) # {})
    IN [n \in 1..Len(settled) |->
           LET item == ItemResolved(GivenItems[CHOOSE j \in VpnItemsOf(SettledId(settled[n])) : TRUE])
               vpn == Get(item, k_vpn)
           IN Dict(<< <<<<"l", "ocalSubnet">>, SettledSubnet(settled[n])>>,
                      <<k_useVpn, GetOr(IF HasKey(vpn, k_ref) THEN ConfigFiles[Get(vpn, k_ref).s] ELSE vpn,
                                        k_useVpn, Str("false"))>> >>)]

\* C25: in the vlans applier the VPN update is sent at most once; no request
\* of the loop follows it; it directly follows a read of the VPN settings
\* that succeeded with a mode other than 'none'; the subnets it adds are one
\* {localSubnet, useVpn} entry per settled VLAN whose _vpn sub-config was
\* resolved; after a read that failed or gave mode 'none' no update is sent
\* and the section is recorded as Partial; and the service keeps every VLAN
\* it created.
C25_VpnUpdateOnceAfterLoop ==
    (CreationSucceeded /\ VlansSection /\ Len(applied) = 1) =>
        /\ Cardinality(VpnUpdates) <= 1
        /\ \A i \in VpnUpdates :
              /\ \A j \in 1..Len(calls) : (j > i) => calls[j].op \notin VlanItemRequests
              /\ calls[i - 1].op = "getNetworkApplianceVpnSiteToSiteVpn"
              /\ calls[i - 1].answer = "ok"
              /\ Get(calls[i].payload, <<"s", "ubnets">>).xs
                    = Get(SiteToSiteVpn, <<"s", "ubnets">>).xs \o ExpectedVpnSubnets
              /\ ExpectedVpnSubnets # <<>>
        /\ \A i \in 1..Len(calls) :
              (calls[i].op = "getNetworkApplianceVpnSiteToSiteVpn" /\ calls[i].answer # "ok") =>
                 /\ VpnUpdates = {}
                 /\ completion_status.settings[k_vlans].status = "Partial"
        /\ \A i \in 1..Len(calls) :
              (calls[i].op = "createNetworkApplianceVlan" /\ calls[i].answer = "ok") =>
                 \E j \in 1..Len(service_vlans) : service_vlans[j] = Get(calls[i].payload, k_id)

\* two VLANs with a _vpn sub-config were settled, the second by an update,
\* and one VPN update carried both subnets
C25_Witness ==
    /\ VlansSection
    /\ pc = "done"
    /\ \E i \in VpnUpdates :
          /\ Len(Get(calls[i].payload, <<"s", "ubnets">>).xs) = 2
          /\ calls[i].answer = "ok"
    /\ \E k \in 1..Len(calls) : calls[k].answer = "taken"

\* the VPN settings were read with mode 'none': no update, VLAN kept
C25_WitnessNone ==
    /\ VlansSection
    /\ pc = "done"
    /\ \E i \in 1..Len(calls) :
          calls[i].op = "getNetworkApplianceVpnSiteToSiteVpn" /\ calls[i].answer = "none"
    /\ service_vlans # <<>>
    /\ returned.settings[k_vlans].status = "Partial"

\* --------------------------------------------------------------- C26
PolicyFetches == {i \in 1..Len(calls) : calls[i].op = "getNetworkGroupPolicies"}

k_groupPolicyId == <<"g", "roupPolicyId">>

\* the given items with VLAN id vlan_id that can be sent
ItemsOf(vlan_id) ==
    {j \in 1..Len(GivenItems) :
        Sendable(GivenItems[j], k_vlans) /\ Get(ItemResolved(GivenItems[j]), k_id) = vlan_id}

\* the item names a group policy that the network has
NamesKnownPolicy(item) ==
    /\ HasKey(item, k_name_groupPolicyId)
    /\ Get(item, k_name_groupPolicyId).s \in DOMAIN GroupPolicies

\* C26: the vlans applier fetches the group policies exactly once, before
\* every request of its loop; when the fetch fails it sends nothing else and
\* the section is recorded as Failure; and a create request carries a
\* groupPolicyId only for an item that names a policy the network has, in
\* which case it is that policy's id: an unknown name adds nothing.
C26_GroupPoliciesFetchedOnceFirst ==
    (CreationSucceeded /\ VlansSection /\ Len(applied) = 1) =>
        /\ Cardinality(PolicyFetches) = 1
        /\ \A i \in PolicyFetches :
              /\ \A j \in 1..Len(calls) : calls[j].op \in VlanItemRequests => i < j
              /\ calls[i].answer # "ok" =>
                    /\ i = Len(calls)
                    /\ completion_status.settings[k_vlans].status = "Failure"
        /\ \A k \in 1..Len(calls) :
              calls[k].op = "createNetworkApplianceVlan" =>
                 \E j \in ItemsOf(Get(calls[k].payload, k_id)) :
                    LET item == ItemResolved(GivenItems[j])
                    IN IF NamesKnownPolicy(item)
                       THEN Get(calls[k].payload, k_groupPolicyId)
                               = Str(GroupPolicies[Get(item, k_name_groupPolicyId).s])
                       ELSE ~HasKey(calls[k].payload, k_groupPolicyId)
        /\ (pc = "done" /\ EveryCallSucceeded /\ \A j \in 1..Len(GivenItems) :
                 Sendable(GivenItems[j], k_vlans) /\ ~HasKey(ItemResolved(GivenItems[j]), k_vpn))
              => returned.settings[k_vlans].status = "Success"

\* a VLAN that names an unknown group policy was created without a
\* groupPolicyId after the one fetch of the policies, and the section is Success
C26_Witness ==
    /\ VlansSection
    /\ pc = "done"
    /\ \E j \in 1..Len(GivenItems) :
          /\ Sendable(GivenItems[j], k_vlans)
          /\ HasKey(ItemResolved(GivenItems[j]), k_name_groupPolicyId)
          /\ ~NamesKnownPolicy(ItemResolved(GivenItems[j]))
    /\ Len(GivenItems) = 1
    /\ \E k \in 1..Len(calls) :
          /\ calls[k].op = "createNetworkApplianceVlan"
          /\ calls[k].answer = "ok"
          /\ ~HasKey(calls[k].payload, k_groupPolicyId)
    /\ returned.settings[k_vlans].status = "Success"

\* --------------------------------------------------------------- C27
\* the request with which an applier reads back the section's current state
ReadBackOf(setting) ==
    CASE setting = k_vlans -> "getNetworkApplianceVlans"
      [] setting = k_vlan_per_port -> "getNetworkAppliancePorts"
      [] setting = k_devices -> "getNetworkDevices"
      [] setting = k_traffic_shaping -> "getNetworkApplianceTrafficShapingUplinkBandwidth"
      [] OTHER -> "none"

ReadBackSettings == {k_vlans, k_vlan_per_port, k_devices, k_traffic_shaping}

ReadBackOps == {ReadBackOf(s) : s \in ReadBackSettings}

\* what a request answers the caller with
ResponseOf(call) == IF call.answer = "ok" THEN Resp(call.op, call.target) ELSE ErrMsg(call.op)

\* C27 as stated: whatever the applier and the path, the last request an
\* applier sends before it returns reads the section's state back, and the
\* answer is the applier's output.
C27_EveryApplierReadsBack ==
    (CreationSucceeded /\ Len(DeclaredSections) >= 1 /\ FirstSection[1] \in KnownSettings
        /\ FirstSectionRecorded) =>
        /\ calls[Len(calls)].op \in ReadBackOps
        /\ completion_status.settings[FirstSection[1]].output \in
              {ResponseOf(calls[Len(calls)]),
               Dict(<< <<<<"u", "plink_bandwidth">>, ResponseOf(calls[Len(calls)])>> >>)}

\* the applier of the first section got past its entry: a list applier was
\* given a list (and vlans fetched the group policies), traffic_shaping
\* resolved its payload
PastEntry ==
    IF FirstSection[1] = k_traffic_shaping THEN ~IsMissingRef(FirstSection[2])
    ELSE ListSection /\ \A i \in PolicyFetches : calls[i].answer = "ok"

\* C27 amended: vlans, vlan_per_port, devices and traffic_shaping, once past
\* their entry, end with the read-back request of their section, whatever
\* the requests before it gave, and its answer is their output (for
\* traffic_shaping under the key uplink_bandwidth); the other appliers never
\* send a read-back request.
C27_ListAndShapingAppliersReadBack ==
    (CreationSucceeded /\ Len(DeclaredSections) >= 1 /\ FirstSection[1] \in KnownSettings
        /\ Len(applied) <= 1) =>
        IF FirstSection[1] \in ReadBackSettings
        THEN (FirstSectionRecorded /\ PastEntry) =>
                /\ calls[Len(calls)].op = ReadBackOf(FirstSection[1])
                /\ Cardinality({i \in 1..Len(calls) : calls[i].op \in ReadBackOps}) = 1
                /\ completion_status.settings[FirstSection[1]].output =
                      IF FirstSection[1] = k_traffic_shaping
                      THEN Dict(<< <<<<"u", "plink_bandwidth">>, ResponseOf(calls[Len(calls)])>> >>)
                      ELSE ResponseOf(calls[Len(calls)])
        ELSE \A i \in 1..Len(calls) : calls[i].op \notin ReadBackOps

\* after a port update that failed the ports were read back all the same,
\* and the section, Partial, has the answer as its output
C27_Witness ==
    /\ ListSection
    /\ FirstSection[1] = k_vlan_per_port
    /\ FirstSectionRecorded
    /\ \E i \in 1..Len(calls) :
          calls[i].op = "updateNetworkAppliancePort" /\ calls[i].answer = "error"
    /\ calls[Len(calls)].op = "getNetworkAppliancePorts"
    /\ completion_status.settings[k_vlan_per_port] =
          [status |-> "Partial", output |-> Resp("getNetworkAppliancePorts", net_id)]

\* --------------------------------------------------------------- C28
ClaimCalls == {i \in 1..Len(calls) : calls[i].op = "claimNetworkDevices"}

\* C28: the thread of a network sleeps exactly after its successful claim
\* requests: each such request is followed, before the next request of the
\* network is made, by one settling delay of 120 seconds that the claim
\* applier takes before it returns; after a claim request that failed there
\* is no delay and the claim section is recorded as Failure.
C28_SettlingDelayAfterSuccessfulClaim ==
    /\ \A i \in ClaimCalls :
          IF calls[i].answer = "ok"
          THEN /\ Cardinality({d \in 1..Len(delays) : delays[d].after = i}) = 1
               /\ completion_status.settings[k_claim].status = "Success"
          ELSE /\ \A d \in 1..Len(delays) : delays[d].after # i
               /\ completion_status.settings[k_claim].status = "Failure"
    /\ \A d \in 1..Len(delays) :
          /\ delays[d].after \in ClaimCalls
          /\ delays[d].seconds = 120

\* a later section made its request after the delay that followed the claim
C28_Witness ==
    /\ \E i \in ClaimCalls :
          /\ calls[i].answer = "ok"
          /\ delays = <<[after |-> i, seconds |-> 120]>>
          /\ i < Len(calls)
          /\ calls[i + 1].op = "updateDevice"
    /\ pc = "done"

\* ------------------------------------------------------------------ C29
\* the name of the completion record build_new_network returns for a network
RecordName(doc) ==
    LET md == GetOr(doc, k_metadata, None)
    IN IF MetadataMissing(md) THEN InitialCompletion.name ELSE Get(md, k_name)

DeclaredAs(name) == {i \in 1..Len(networks) : RecordName(networks[i]) = name}

CollectedAs(name) == {r \in 1..Len(completions) : completions[r].name = name}

\* C29: main's collection loop is never left by an exception, and once every
\* builder has ended main holds, for every name, as many completion records as
\* networks were declared under it: none dropped, none duplicated
C29_OneRecordPerDeclaredNetwork ==
    /\ main_pc \in {"collect", "done"}
    /\ RunEnded =>
          \A i \in 1..Len(networks) :
              Cardinality(CollectedAs(RecordName(networks[i])))
                 = Cardinality(DeclaredAs(RecordName(networks[i])))

\* ------------------------------------------------------------------ C30
CreatedAs(name) ==
    {r \in CollectedAs(name) : completions[r].settings[k_creation].status = "Success"}

\* names that several networks of the run declare, that the cache read before
\* the pool started does not hold, and that one builder of the run has created
\* (main holds the winner's record)
RacedNames ==
    {RecordName(networks[i]) : i \in
        {j \in 1..Len(networks) :
            /\ ~MetadataMissing(GetOr(networks[j], k_metadata, None))
            /\ Cardinality(DeclaredAs(RecordName(networks[j]))) >= 2
            /\ RecordName(networks[j]).s \notin DOMAIN net_name_to_id
            /\ CreatedAs(RecordName(networks[j])) # {}}}

\* C30: when networks of one run race to create the same uncached name, main is
\* not disturbed, and once every builder has ended each of the racing networks
\* has its record: the winner's with creation Success, every loser's with
\* creation Failure and the backend's error as output
C30_LoserOfNameRaceRecordsFailure ==
    \A name \in RacedNames :
        /\ main_pc # "raised"
        /\ RunEnded =>
              /\ Cardinality(CollectedAs(name)) = Cardinality(DeclaredAs(name))
              /\ Cardinality(CreatedAs(name)) = 1
              /\ \A r \in CollectedAs(name) \ CreatedAs(name) :
                    /\ completions[r].settings[k_creation].status = "Failure"
                    /\ completions[r].settings[k_creation].output # None

\* ------------------------------------------------------------------ C31
\* the names of the networks this builder created
CreatedNames ==
    {Get(calls[i].payload, k_name).s : i \in
        {j \in 1..Len(calls) :
            calls[j].op = "createOrganizationNetwork" /\ calls[j].answer = "ok"}}

\* C31: the name -> id cache holds at every point of the build what it held
\* when it was built, so a network created during the run is resolvable by
\* name only if it was in the cache before
C31_NameCacheNeverModified ==
    /\ net_name_to_id = OrgNetworks
    /\ \A n \in CreatedNames : n \in DOMAIN net_name_to_id <=> n \in DOMAIN OrgNetworks

\* a network the cache did not hold was created and its build ended
C31_Witness ==
    /\ pc = "done"
    /\ "Branch1" \in CreatedNames
    /\ "Branch1" \notin DOMAIN net_name_to_id
    /\ \E i \in 1..Len(calls) : calls[i].op = "updateNetworkApplianceVpnSiteToSiteVpn"

\* ------------------------------------------------------------------ C32
CreationPayloads ==
    {calls[i].payload : i \in {j \in 1..Len(calls) : calls[j].op = "createOrganizationNetwork"}}

\* C32: with a copy-from network configured every creation payload carries its
\* id as copyFromNetworkId; with none configured a creation payload carries
\* copyFromNetworkId only as the document's metadata supplied it
C32_CopyFromAttachedToCreation ==
    \A p \in CreationPayloads :
        IF copy_from_id # None
        THEN HasKey(p, k_copyFromNetworkId) /\ Get(p, k_copyFromNetworkId) = copy_from_id
        ELSE GetOr(p, k_copyFromNetworkId, None)
                = GetOr(Get(document, k_metadata), k_copyFromNetworkId, None)

\* a network whose metadata names its own source was submitted in a run with a
\* configured copy-from network
C32_Witness ==
    /\ copy_from_id = Str("N_HQ")
    /\ CreationPayloads # {}
    /\ GetOr(Get(document, k_metadata), k_copyFromNetworkId, None) = Str("N_old")

\* a network whose metadata names its own source was submitted in a run
\* without a copy-from network
C32_WitnessOwn ==
    /\ copy_from_id = None
    /\ \E p \in CreationPayloads : GetOr(p, k_copyFromNetworkId, None) = Str("N_old")

\* ------------------------------------------------------------------ C33
\* the loop of build_new_network stands at a key that names no section
AtUnknownKey ==
    /\ pc = "settings"
    /\ position <= Len(remaining_settings)
    /\ remaining_settings[position] \notin KnownSettings

\* C33: the step over a key that is not a recognised section name issues no
\* backend call and raises nothing: the loop moves to the following key and
\* the record is left as it was, the key's entry still Skipped
C33_UnknownKeyIsPassedOver ==
    [][AtUnknownKey =>
          /\ calls' = calls
          /\ pc' = "settings"
          /\ position' = position + 1
          /\ completion_status'.settings[remaining_settings[position]]
                = [status |-> "Skipped", output |-> None]
          /\ \A k \in DOMAIN completion_status.settings :
                completion_status'.settings[k] = completion_status.settings[k]]_vars

\* a build ended in which a recognised section was applied after an unknown key
C33_Witness ==
    /\ pc = "done"
    /\ Len(remaining_settings) = 2
    /\ remaining_settings[1] = k_warm_spare
    /\ completion_status.settings[k_warm_spare].status = "Skipped"
    /\ completion_status.settings[remaining_settings[2]].status = "Success"
    /\ calls[Len(calls)].op # "createOrganizationNetwork"

\* ------------------------------------------------------------------ C34
\* C34: a backend wrapper hands its caller a pair, (no code, payload) or
\* (code, message), whatever the backend answers, and lets no exception
\* escape; for create_network: the step of build_new_network that calls it
\* ends with the creation recorded as failed or succeeded, never in an exception
C34_WrapperNeverRaises ==
    [][pc = "create" =>
          /\ pc' \in {"done", "settings"}
          /\ pc' = "done" =>
                /\ completion_status'.settings[k_creation].status = "Failure"
                /\ completion_status'.settings[k_creation].output # None
          /\ pc' = "settings" =>
                completion_status'.settings[k_creation].status = "Success"]_vars

\* ------------------------------------------------------------------ C35
\* the first section is the devices applier's and its payload is a list
DevicesSection ==
    /\ CreationSucceeded
    /\ ListSection
    /\ FirstSection[1] = k_devices

\* the devices with a serial, in the order of the list, and the main update
\* requests, in the order they were sent
DevicesWithSerial == SelectSeq(GivenItems, LAMBDA item : Sendable(item, k_devices))

DeviceUpdates == SelectSeq(calls, LAMBDA c : c.op = "updateDevice")

UplinkUpdates == {i \in 1..Len(calls) : calls[i].op = "updateDeviceApplianceUplinksSettings"}

\* the device's item carries _mx_uplinks; its sub-config can be resolved
HasUplinks(item) == HasKey(ItemResolved(item), k_mx_uplinks)

UplinksResolved(item) ==
    HasUplinks(item) /\ ~IsMissingRef(Get(ItemResolved(item), k_mx_uplinks))

\* C35: in the devices applier an _mx_uplinks request directly follows the
\* successful main update of the same serial; once the section is recorded,
\* one main update per item with a serial was sent, in order and to that
\* serial (none for an item without serial, none held back by a failure
\* before it), one uplink request per updated device with a resolvable
\* _mx_uplinks, and the status is Partial if an item had no serial, an uplink
\* request failed or the _mx_uplinks of an updated device named a missing file
C35_DevicesFollowUpAfterMainUpdate ==
    DevicesSection =>
        /\ pc # "raised"
        /\ \A i \in UplinkUpdates :
              /\ i > 1
              /\ calls[i - 1].op = "updateDevice"
              /\ calls[i - 1].answer = "ok"
              /\ calls[i - 1].target = calls[i].target
        /\ LoopRecorded =>
              /\ Len(DeviceUpdates) = Len(DevicesWithSerial)
              /\ \A k \in 1..Len(DeviceUpdates) :
                    DeviceUpdates[k].target = Get(ItemResolved(DevicesWithSerial[k]), k_serial).s
              /\ Cardinality(UplinkUpdates)
                    = Cardinality({k \in 1..Len(DeviceUpdates) :
                                      /\ DeviceUpdates[k].answer = "ok"
                                      /\ UplinksResolved(DevicesWithSerial[k])})
              /\ (\/ \E j \in 1..Len(GivenItems) :
                        /\ ~IsMissingRef(GivenItems[j])
                        /\ ~Sendable(GivenItems[j], k_devices)
                  \/ \E i \in UplinkUpdates : calls[i].answer # "ok"
                  \/ \E k \in 1..Len(DeviceUpdates) :
                        /\ DeviceUpdates[k].answer = "ok"
                        /\ HasUplinks(DevicesWithSerial[k])
                        /\ ~UplinksResolved(DevicesWithSerial[k]))
                    => completion_status.settings[k_devices].status = "Partial"

\* a device's uplink request failed and the device after it was still updated
C35_Witness ==
    /\ DevicesSection
    /\ LoopRecorded
    /\ \E i \in UplinkUpdates :
          /\ calls[i].answer # "ok"
          /\ i < Len(calls)
          /\ calls[i + 1].op = "updateDevice"
    /\ completion_status.settings[k_devices].status = "Partial"

\* an item without serial stands before a device that was updated
C35_WitnessNoSerial ==
    /\ DevicesSection
    /\ LoopRecorded
    /\ ~IsMissingRef(GivenItems[1])
    /\ ~Sendable(GivenItems[1], k_devices)
    /\ Len(DeviceUpdates) = 1
    /\ completion_status.settings[k_devices].status = "Partial"

\* ------------------------------------------------------------------ C36
\* what the read-back request of a section answers when it succeeds
ReadBackPayload(setting) == Resp(ReadBackOf(setting), net_id)

\* C36: a vlans, vlan_per_port, devices or traffic_shaping section recorded
\* as Success has the payload of a successful read-back as its output (for
\* traffic_shaping under the key uplink_bandwidth), never an error message
C36_SuccessCarriesReadBackPayload ==
    (CreationSucceeded /\ Len(DeclaredSections) >= 1 /\ FirstSection[1] \in ReadBackSettings
        /\ FirstSectionRecorded
        /\ completion_status.settings[FirstSection[1]].status = "Success") =>
        completion_status.settings[FirstSection[1]].output =
            IF FirstSection[1] = k_traffic_shaping
            THEN Dict(<< <<<<"u", "plink_bandwidth">>, ReadBackPayload(k_traffic_shaping)>> >>)
            ELSE ReadBackPayload(FirstSection[1])

\* ------------------------------------------------------------------ C37
\* a value as an applier reads it: the fragment it names, or itself
Resolved(v) == IF HasKey(v, k_ref) THEN ConfigFiles[Get(v, k_ref).s] ELSE v

\* the given VLAN items with id vlan_id that carry a resolvable _dhcp sub-config
DhcpItemsOf(vlan_id) ==
    {j \in 1..Len(GivenItems) :
        /\ Sendable(GivenItems[j], k_vlans)
        /\ Get(ItemResolved(GivenItems[j]), k_id).s = vlan_id
        /\ HasKey(ItemResolved(GivenItems[j]), k_dhcp)
        /\ ~IsMissingRef(Get(ItemResolved(GivenItems[j]), k_dhcp))}

\* the DHCP follow-up requests sent for the item j on its VLAN
DhcpUpdatesFor(j) ==
    {m \in 1..Len(calls) :
        /\ calls[m].op = "updateNetworkApplianceVlan"
        /\ calls[m].vlan = Get(ItemResolved(GivenItems[j]), k_id).s
        /\ calls[m].payload = Resolved(Get(ItemResolved(GivenItems[j]), k_dhcp))}

\* C37: once the vlans section is recorded, every VLAN that was created (or
\* updated in place of a creation) for an item with a resolvable _dhcp
\* sub-config has received that item's DHCP update, whatever became of the
\* item's _vpn sub-config
C37_DhcpSentWhateverVpn ==
    (CreationSucceeded /\ VlansSection /\ LoopRecorded) =>
        \A k \in 1..Len(calls) :
            VlanSettled(k) =>
                \A j \in DhcpItemsOf(SettledId(k)) :
                    \E m \in DhcpUpdatesFor(j) : m > k

\* ------------------------------------------------------------------ C38
\* the key under which a firmware config names a product of the table
ProductKey(product) == IF product = "appliance" THEN <<"a", "ppliance">> ELSE <<"s", "witch">>

\* the ids of the versions the service lists for the product named by key
OwnVersionIds(key) ==
    UNION {{FirmwareProducts[i].currentVersion.id}
           \cup {FirmwareProducts[i].availableVersions[j].id :
                    j \in 1..Len(FirmwareProducts[i].availableVersions)} :
           i \in {n \in 1..Len(FirmwareProducts) : ProductKey(FirmwareProducts[n].product) = key}}

\* the upgrade requests that carry products
UpgradeRequests ==
    {i \in 1..Len(calls) :
        /\ calls[i].op = "updateNetworkFirmwareUpgrades"
        /\ HasKey(calls[i].payload, k_products)}

\* the version id a product entry of an upgrade request carries, None without one
ToVersionId(product_upgrade) ==
    IF /\ HasKey(product_upgrade, k_nextUpgrade)
       /\ HasKey(Get(product_upgrade, k_nextUpgrade), k_toVersion)
    THEN GetOr(Get(Get(product_upgrade, k_nextUpgrade), k_toVersion), k_id, None)
    ELSE None

\* C38: the version id an upgrade request carries for a product is the id of
\* that product's own current version or of one of its own available
\* versions; a name listed only under another product never reaches a request
C38_VersionIdIsOfOwnProduct ==
    \A i \in UpgradeRequests :
        LET products == Get(calls[i].payload, k_products).kv
        IN \A n \in 1..Len(products) :
              ToVersionId(products[n][2]) # None =>
                  ToVersionId(products[n][2]).s \in OwnVersionIds(products[n][1])

\* ------------------------------------------- the builders of one pool, C39
\* most builders running at once in this view of the pool
MaxBuilders == 2

\* the documents of the pool: a new network with a VLAN that joins the VPN,
\* a network the cache holds, and another new network
PoolDocs ==
    {NetworkSpec(Metadata("Branch1", <<Str("appliance")>>),
                 << <<k_vlans, List(<<Set(VlanConfig("10"), <<"_", "vpn">>, UseVpnConfig)>>)>> >>),
     NetworkSpec(Metadata("HQ", <<Str("appliance")>>), << <<k_syslog, SyslogConfig>> >>),
     NetworkSpec(Metadata("Branch2", <<Str("appliance")>>), << <<k_syslog, SyslogConfig>> >>)}

PoolNetworks == {n \in ListsOf(PoolDocs, MaxBuilders) : Len(n) = MaxBuilders}

\* the id the service gives to the network it creates under a name
ServiceNetworkId(name) == "N_" \o name

\* the locals of one build_new_network: where it is, net_id, its copy of the
\* document without metadata, the loop position, the frame of vlans_config
\* the requests it has sent, and the statuses it has recorded for the
\* sections in their order
Worker(wpc, id, config, pos, fr, made) ==
    [pc |-> wpc, net_id |-> id, network_config |-> config, position |-> pos, frame |-> fr,
     calls |-> made, statuses |-> <<>>]

\* variant: net_id is one module-level name that the latest creation rebinds
NetIdLatest(i) ==
    LET known == {j \in 1..Len(workers) : workers[j].net_id # ""}
    IN IF known = {} THEN "" ELSE workers[CHOOSE j \in known : \A k \in known : k <= j].net_id

\* net_id as the appliers of task i receive it: the local of its own frame
NetId(i) == workers[i].net_id

\* task i stands at the section setting
WorkerAt(i, setting) ==
    /\ workers[i].pc = "settings"
    /\ workers[i].position <= Len(workers[i].network_config.kv)
    /\ workers[i].network_config.kv[workers[i].position][1] = setting

PoolUnchanged ==
    /\ UNCHANGED <<builder_vars, split_vars, given_vars, clock_vars, service_vlans>>
    /\ UNCHANGED <<networks, futures, completions, unique_settings, summary_table, main_pc>>

\* task i up to the creation of its network
PoolCreate(i) ==
    /\ workers[i].pc = "create"
    /\ LET md == GetOr(networks[i], k_metadata, None)
       IN IF MetadataMissing(md)
          THEN /\ workers' = [workers EXCEPT ![i].pc = "done"]
               /\ UNCHANGED service_networks
          ELSE \E outcome \in CreateOutcomes :
               \E update_outcome \in Only(outcome = "taken", Outcomes) :
                 LET r == create_network(WithCopyFrom(md, copy_from_id), net_name_to_id,
                                         outcome, update_outcome)
                     name == Get(md, k_name)
                 IN /\ outcome = "ok" => name \notin service_networks
                    /\ service_networks' =
                          IF outcome = "ok" \/ r.raised THEN service_networks \cup {name}
                          ELSE service_networks
                    /\ workers' =
                          [workers EXCEPT ![i] =
                              IF r.raised THEN Worker("raised", "", networks[i], 1, NoFrame, r.calls)
                              ELSE IF r.error_code # None
                              THEN Worker("done", "", networks[i], 1, NoFrame, r.calls)
                              ELSE Worker("settings",
                                          IF outcome = "ok" THEN ServiceNetworkId(name.s)
                                          ELSE r.response.id,
                                          Del(networks[i], k_metadata), 1, NoFrame, r.calls)]
    /\ PoolUnchanged

\* task i applies a section with one request
PoolSyslog(i) ==
    /\ WorkerAt(i, k_syslog)
    /\ \E outcome \in Outcomes :
         LET r == syslog_server_config(NetId(i), Get(workers[i].network_config, k_syslog), outcome)
         IN workers' = [workers EXCEPT ![i].calls = @ \o r.calls, ![i].position = @ + 1,
                                       ![i].statuses = Append(@, r.status)]
    /\ UNCHANGED service_networks
    /\ PoolUnchanged

\* task i in vlans_config up to its for-loop
PoolVlansBegin(i) ==
    /\ WorkerAt(i, k_vlans)
    /\ ~workers[i].frame.started
    /\ \E outcome \in Outcomes :
         LET g == SdkCall("getNetworkGroupPolicies", NetId(i), None, outcome)
         IN workers' =
               IF g.error_code # None
               THEN [workers EXCEPT ![i].calls = @ \o g.calls, ![i].position = @ + 1,
                                    ![i].statuses = Append(@, "Failure")]
               ELSE [workers EXCEPT ![i].calls = @ \o g.calls,
                                    ![i].frame = Frame(TRUE, "Success", 0, <<>>)]
    /\ UNCHANGED service_networks
    /\ PoolUnchanged

\* task i in one iteration of the loop of vlans_config
PoolVlansItem(i) ==
    /\ WorkerAt(i, k_vlans)
    /\ workers[i].frame.started
    /\ workers[i].frame.n < Len(Items(Get(workers[i].network_config, k_vlans)))
    /\ \E settings_outcome \in VlanOutcomes :
       \E outcome \in Only(settings_outcome = "ok", VlanOutcomes) :
       \E update_outcome \in Only("taken" \in {settings_outcome, outcome}, Outcomes) :
       \E dhcp_outcome \in Only(update_outcome = "ok" /\ outcome \in {"ok", "taken"}, Outcomes) :
         LET fr == workers[i].frame
             s == vlans_item(NetId(i), Items(Get(workers[i].network_config, k_vlans))[fr.n + 1],
                             fr.status, fr.vpn_subnets,
                             settings_outcome, outcome, update_outcome, dhcp_outcome)
         IN workers' =
               IF s.raised
               THEN [workers EXCEPT ![i].calls = @ \o s.calls, ![i].pc = "raised"]
               ELSE [workers EXCEPT ![i].calls = @ \o s.calls,
                                    ![i].frame = Frame(TRUE, s.status, fr.n + 1, s.vpn_subnets)]
    /\ UNCHANGED service_networks
    /\ PoolUnchanged

\* task i in vlans_config after its loop: the VPN subnets and the read-back
PoolVlansFinish(i) ==
    /\ WorkerAt(i, k_vlans)
    /\ workers[i].frame.started
    /\ workers[i].frame.n = Len(Items(Get(workers[i].network_config, k_vlans)))
    /\ \E get_outcome \in Only(workers[i].frame.vpn_subnets # <<>>, VpnOutcomes) :
       \E outcome \in Only(get_outcome = "ok", Outcomes), readback_outcome \in Outcomes :
         LET r == vlans_finish(NetId(i), workers[i].frame.status, workers[i].frame.vpn_subnets,
                               get_outcome, outcome, readback_outcome)
         IN workers' = [workers EXCEPT ![i].calls = @ \o r.calls, ![i].position = @ + 1,
                                       ![i].frame = NoFrame,
                                       ![i].statuses = Append(@, r.status)]
    /\ UNCHANGED service_networks
    /\ PoolUnchanged

\* task i returns its record
PoolFinish(i) ==
    /\ workers[i].pc = "settings"
    /\ workers[i].position > Len(workers[i].network_config.kv)
    /\ workers' = [workers EXCEPT ![i].pc = "done"]
    /\ UNCHANGED service_networks
    /\ PoolUnchanged

\* main after every network was submitted, each to a free worker thread
InitPool ==
    /\ Start(NetworkSpec(None, <<>>))
    /\ copy_from_id = None
    /\ split_in = Dict(<<>>)
    /\ split_given = split_in
    /\ split_out = None
    /\ networks \in PoolNetworks
    /\ futures = [i \in 1..Len(networks) |-> Future("running", None)]
    /\ completions = <<>>
    /\ unique_settings = {}
    /\ summary_table = None
    /\ main_pc = "collect"
    /\ workers = [i \in 1..Len(networks) |-> Worker("create", "", networks[i], 1, NoFrame, <<>>)]

NextPool ==
    \/ \E i \in 1..Len(workers) : PoolCreate(i)
    \/ \E i \in 1..Len(workers) : PoolSyslog(i)
    \/ \E i \in 1..Len(workers) : PoolVlansBegin(i)
    \/ \E i \in 1..Len(workers) : PoolVlansItem(i)
    \/ \E i \in 1..Len(workers) : PoolVlansFinish(i)
    \/ \E i \in 1..Len(workers) : PoolFinish(i)

SpecPool == InitPool /\ [][NextPool]_vars

\* the requests of task i that are addressed to a network
NetworkScoped(i) ==
    {n \in 1..Len(workers[i].calls) : workers[i].calls[n].op # "createOrganizationNetwork"}

\* the id the backend gave task i: that of the network it created, or that of
\* the network it updated in place of a creation
OwnNetworkId(i) ==
    IF workers[i].calls[1].answer = "ok"
    THEN ServiceNetworkId(Get(workers[i].calls[1].payload, k_name).s)
    ELSE workers[i].calls[2].target

\* C39: whatever the interleaving of the builders, every request a builder
\* addresses to a network goes to the id its own creation or upsert returned,
\* and so never to the network of a builder with another name
C39_BuilderAddressesOwnNetwork ==
    \A i \in 1..Len(workers) :
        \A n \in NetworkScoped(i) :
            /\ workers[i].calls[n].target = OwnNetworkId(i)
            /\ \A j \in 1..Len(workers) :
                  (workers[j].net_id # "" /\ RecordName(networks[j]) # RecordName(networks[i]))
                     => workers[i].calls[n].target # workers[j].net_id

\* two builders of different networks ran side by side to their end, the first
\* through vlans_config up to its read-back, each addressing its own network
C39_Witness ==
    /\ Len(workers) >= 2
    /\ workers[1].pc = "done"
    /\ workers[2].pc = "done"
    /\ workers[1].net_id # ""
    /\ workers[2].net_id # ""
    /\ workers[1].net_id # workers[2].net_id
    /\ \E n \in NetworkScoped(1) : workers[1].calls[n].op = "getNetworkApplianceVlans"
    /\ NetworkScoped(2) # {}

====
